---- MODULE Spec2Model ----
(***************************************************************************)
(* Metric dependency resolution and map-metric provider dispatch of        *)
(* great_expectations (expectations/metrics/map_metric_provider.py).       *)
(*                                                                         *)
(* A metric name is the sequence of its dot-separated segments, so         *)
(* "column_values.nonnull.unexpected_count" is                             *)
(* <<"column_values", "nonnull", "unexpected_count">>.  A kwargs dict is a *)
(* function from its keys to their values; None (no kwargs) is NoKwargs.   *)
(***************************************************************************)
EXTENDS Integers, Sequences, FiniteSets, TLC

\* ------------------------------------------------------------------------
\* Bounds of the model
\* ------------------------------------------------------------------------

\* number of decorated members whose registrations are run before a request
MaxRegistered == 2

\* ------------------------------------------------------------------------
\* Names
\* ------------------------------------------------------------------------

\* number of characters of one name segment
SegLen(s) ==
    CASE s = "column_values" -> 13
      [] s = "nonnull" -> 7
      [] s = "z_score" -> 7
      [] s = "under_threshold" -> 15
      [] s = "column_pair_values" -> 18
      [] s = "equal" -> 5
      [] s = "compound_columns" -> 16
      [] s = "unique" -> 6
      [] s = "condition" -> 9
      [] s = "unexpected_count" -> 16
      [] s = "aggregate_fn" -> 12
      [] s = "unexpected_values" -> 17
      [] s = "unexpected_value_counts" -> 23
      [] s = "unexpected_index_list" -> 21
      [] s = "unexpected_rows" -> 15
      [] s = "filtered_row_count" -> 18
      [] s = "map" -> 3
      [] s = "table" -> 5
      [] s = "columns" -> 7
      [] s = "column_types" -> 12
      [] s = "row_count" -> 9
      [] OTHER -> 1

RECURSIVE SumSegLen(_)
SumSegLen(n) == IF n = <<>> THEN 0 ELSE SegLen(Head(n)) + SumSegLen(Tail(n))

\* len(metric_name): the segments and the dots between them
NameLen(n) == IF n = <<>> THEN 0 ELSE SumSegLen(n) + (Len(n) - 1)

\* metric_name.endswith("." + ".".join(suffix))
EndsWith(n, suffix) ==
    /\ Len(n) > Len(suffix)
    /\ SubSeq(n, Len(n) - Len(suffix) + 1, Len(n)) = suffix

\* metric_name[:-len(metric_suffix)]
StripSuffix(n, suffix) == SubSeq(n, 1, Len(n) - Len(suffix))

\* ------------------------------------------------------------------------
\* kwargs dicts
\* ------------------------------------------------------------------------

NoKwargs == <<>>

\* {k: v for (k, v) in d.items() if k not in keys}
Without(d, keys) == [k \in (DOMAIN d) \ keys |-> d[k]]

\* MetricConfiguration(metric_name, metric_domain_kwargs, metric_value_kwargs)
MetricConfiguration(n, dk, vk) ==
    [metric_name |-> n, metric_domain_kwargs |-> dk, metric_value_kwargs |-> vk]

\* dependencies[role] = cfg
SetItem(d, role, cfg) == (role :> cfg) @@ d

\* d.values()
Range(d) == { d[k] : k \in DOMAIN d }

\* ------------------------------------------------------------------------
\* Provider classes and the metric registry
\* ------------------------------------------------------------------------

Engines ==
    {"PandasExecutionEngine", "SqlAlchemyExecutionEngine", "SparkDFExecutionEngine"}

ConditionFnTypes == {"MAP_CONDITION_SERIES", "MAP_CONDITION_FN", "WINDOW_CONDITION_FN"}
FunctionFnTypes == {"MAP_SERIES", "MAP_FN", "WINDOW_FN"}

\* The provider classes whose decorated members are registered: the class
\* they derive from, the domain type their partial decorators set, and
\* their metric names (<<>>: the class does not have the attribute).
ProviderClasses ==
    { [name |-> "ColumnValuesNonNull", base |-> "ColumnMapMetricProvider",
       domain_type |-> "COLUMN",
       condition_metric_name |-> <<"column_values", "nonnull">>,
       function_metric_name |-> <<>>,
       condition_value_keys |-> {}],
      [name |-> "ColumnValuesZScore", base |-> "ColumnMapMetricProvider",
       domain_type |-> "COLUMN",
       condition_metric_name |-> <<"column_values", "z_score", "under_threshold">>,
       function_metric_name |-> <<"column_values", "z_score">>,
       condition_value_keys |-> {"threshold"}],
      [name |-> "ColumnPairValuesEqual", base |-> "ColumnPairMapMetricProvider",
       domain_type |-> "COLUMN_PAIR",
       condition_metric_name |-> <<"column_pair_values", "equal">>,
       function_metric_name |-> <<>>,
       condition_value_keys |-> {}],
      [name |-> "CompoundColumnsUnique", base |-> "MulticolumnMapMetricProvider",
       domain_type |-> "MULTICOLUMN",
       condition_metric_name |-> <<"compound_columns", "unique">>,
       function_metric_name |-> <<>>,
       condition_value_keys |-> {}],
      [name |-> "ColumnValuesNonNullCondition", base |-> "ColumnMapMetricProvider",
       domain_type |-> "COLUMN",
       condition_metric_name |-> <<>>,
       function_metric_name |-> <<"column_values", "nonnull", "condition">>,
       condition_value_keys |-> {}] }

ClassNamed(cname) == CHOOSE c \in ProviderClasses : c.name = cname

\* The partial function types each decorator accepts for an engine
\* (column_condition_partial, column_function_partial and their column pair
\* and multicolumn counterparts raise ValueError for any other).
DecoratorAccepts(engine, fn_type, domain_type) ==
    CASE engine = "PandasExecutionEngine" ->
            fn_type \in {"MAP_CONDITION_SERIES", "MAP_SERIES"}
      [] engine = "SqlAlchemyExecutionEngine" ->
            fn_type \in {"MAP_CONDITION_FN", "WINDOW_CONDITION_FN", "MAP_FN"}
      [] OTHER ->
            \/ fn_type \in {"MAP_CONDITION_FN", "WINDOW_CONDITION_FN", "MAP_FN"}
            \/ fn_type = "WINDOW_FN" /\ domain_type = "COLUMN"

\* A decorated member of a provider class (an attribute with metric_engine).
Members ==
    { m \in [cls : {c.name : c \in ProviderClasses}, engine : Engines,
             metric_fn_type : ConditionFnTypes \cup FunctionFnTypes] :
        DecoratorAccepts(m.engine, m.metric_fn_type, ClassNamed(m.cls).domain_type) }

\* register_metric: the registry maps (metric name, engine) to the provider.
register_metric(reg, metric_name, metric_value_keys, engine, metric_class, metric_provider, metric_fn_type) ==
    (<<metric_name, engine>> :>
        [metric_class |-> metric_class,
         metric_provider |-> metric_provider,
         metric_fn_type |-> metric_fn_type,
         metric_value_keys |-> metric_value_keys]) @@ reg

\* get_metric_provider succeeds (does not raise MetricProviderError)
IsRegistered(reg, metric_name, execution_engine) ==
    <<metric_name, execution_engine>> \in DOMAIN reg

\* The register_metric calls of one condition member, in the order made:
\* <<name suffix, provider, fn type, result_format is a value key>>.
PandasConditionCalls(fn_type, domain_type) ==
    << <<<<"condition">>, "condition_provider", fn_type, FALSE>>,
       <<<<"unexpected_count">>, "_pandas_map_condition_unexpected_count", "VALUE", FALSE>>,
       <<<<"unexpected_index_list">>, "_pandas_map_condition_index", "VALUE", TRUE>>,
       <<<<"unexpected_rows">>, "_pandas_map_condition_rows", "VALUE", TRUE>> >>
    \o (CASE domain_type = "COLUMN" ->
              << <<<<"unexpected_values">>,
                   "_pandas_column_map_condition_values", "VALUE", TRUE>>,
                 <<<<"unexpected_value_counts">>,
                   "_pandas_column_map_condition_value_counts", "VALUE", TRUE>> >>
          [] domain_type = "COLUMN_PAIR" ->
              << <<<<"unexpected_values">>,
                   "_pandas_column_pair_map_condition_values", "VALUE", TRUE>>,
                 <<<<"filtered_row_count">>,
                   "_pandas_column_pair_map_condition_filtered_row_count", "VALUE", TRUE>> >>
          [] domain_type = "MULTICOLUMN" ->
              << <<<<"unexpected_values">>,
                   "_pandas_multicolumn_map_condition_values", "VALUE", TRUE>>,
                 <<<<"filtered_row_count">>,
                   "_pandas_multicolumn_map_condition_filtered_row_count", "VALUE", TRUE>> >>
          [] OTHER -> << >>)

\* mutant: every condition is registered for aggregate pushdown
SqlAlchemyConditionCallsPushdown(fn_type, domain_type) ==
    << <<<<"condition">>, "condition_provider", fn_type, FALSE>>,
       <<<<"unexpected_rows">>, "_sqlalchemy_map_condition_rows", "VALUE", TRUE>>,
       <<<<"unexpected_count", "aggregate_fn">>,
         "_sqlalchemy_map_condition_unexpected_count_aggregate_fn", "AGGREGATE_FN", FALSE>>,
       <<<<"unexpected_count">>, "None", "VALUE", FALSE>> >>

SqlAlchemyConditionCalls(fn_type, domain_type) ==
    << <<<<"condition">>, "condition_provider", fn_type, FALSE>>,
       <<<<"unexpected_rows">>, "_sqlalchemy_map_condition_rows", "VALUE", TRUE>> >>
    \o (CASE fn_type = "MAP_CONDITION_FN" /\ domain_type = "COLUMN" ->
              << <<<<"unexpected_count", "aggregate_fn">>,
                   "_sqlalchemy_map_condition_unexpected_count_aggregate_fn",
                   "AGGREGATE_FN", FALSE>>,
                 <<<<"unexpected_count">>, "None", "VALUE", FALSE>> >>
          [] fn_type = "MAP_CONDITION_FN" /\ domain_type # "COLUMN" ->
              << <<<<"unexpected_count">>,
                   "_sqlalchemy_map_condition_unexpected_count_value", "VALUE", FALSE>> >>
          [] fn_type = "WINDOW_CONDITION_FN" ->
              << <<<<"unexpected_count">>,
                   "_sqlalchemy_map_condition_unexpected_count_value", "VALUE", FALSE>> >>
          [] OTHER -> << >>)
    \o (CASE domain_type = "COLUMN" ->
              << <<<<"unexpected_values">>,
                   "_sqlalchemy_column_map_condition_values", "VALUE", TRUE>>,
                 <<<<"unexpected_value_counts">>,
                   "_sqlalchemy_column_map_condition_value_counts", "VALUE", TRUE>> >>
          [] domain_type = "COLUMN_PAIR" ->
              << <<<<"unexpected_values">>,
                   "_sqlalchemy_column_pair_map_condition_values", "VALUE", TRUE>>,
                 <<<<"filtered_row_count">>,
                   "_sqlalchemy_column_pair_map_condition_filtered_row_count", "VALUE", TRUE>> >>
          [] domain_type = "MULTICOLUMN" ->
              << <<<<"unexpected_values">>,
                   "_sqlalchemy_multicolumn_map_condition_values", "VALUE", TRUE>>,
                 <<<<"filtered_row_count">>,
                   "_sqlalchemy_multicolumn_map_condition_filtered_row_count", "VALUE", TRUE>> >>
          [] OTHER -> << >>)

\* mutant: the aggregate_fn of a plain column condition is not registered
SparkConditionCallsWithoutAggregateFn(fn_type, domain_type) ==
    << <<<<"condition">>, "condition_provider", fn_type, FALSE>>,
       <<<<"unexpected_rows">>, "_spark_map_condition_rows", "VALUE", TRUE>>,
       <<<<"unexpected_count">>,
         IF fn_type = "MAP_CONDITION_FN" /\ domain_type = "COLUMN"
         THEN "None" ELSE "_spark_map_condition_unexpected_count_value", "VALUE", FALSE>> >>

SparkConditionCalls(fn_type, domain_type) ==
    << <<<<"condition">>, "condition_provider", fn_type, FALSE>>,
       <<<<"unexpected_rows">>, "_spark_map_condition_rows", "VALUE", TRUE>> >>
    \o (CASE fn_type = "MAP_CONDITION_FN" /\ domain_type = "COLUMN" ->
              << <<<<"unexpected_count", "aggregate_fn">>,
                   "_spark_map_condition_unexpected_count_aggregate_fn",
                   "AGGREGATE_FN", FALSE>>,
                 <<<<"unexpected_count">>, "None", "VALUE", FALSE>> >>
          [] fn_type = "MAP_CONDITION_FN" /\ domain_type # "COLUMN" ->
              << <<<<"unexpected_count">>,
                   "_spark_map_condition_unexpected_count_value", "VALUE", FALSE>> >>
          [] fn_type = "WINDOW_CONDITION_FN" ->
              << <<<<"unexpected_count">>,
                   "_spark_map_condition_unexpected_count_value", "VALUE", FALSE>> >>
          [] OTHER -> << >>)
    \o (CASE domain_type = "COLUMN" ->
              << <<<<"unexpected_values">>,
                   "_spark_column_map_condition_values", "VALUE", TRUE>>,
                 <<<<"unexpected_value_counts">>,
                   "_spark_column_map_condition_value_counts", "VALUE", TRUE>> >>
          [] domain_type = "COLUMN_PAIR" ->
              << <<<<"unexpected_values">>,
                   "_spark_column_pair_map_condition_values", "VALUE", TRUE>>,
                 <<<<"filtered_row_count">>,
                   "_spark_column_pair_map_condition_filtered_row_count", "VALUE", TRUE>> >>
          [] domain_type = "MULTICOLUMN" ->
              << <<<<"unexpected_values">>,
                   "_spark_multicolumn_map_condition_values", "VALUE", TRUE>>,
                 <<<<"filtered_row_count">>,
                   "_spark_multicolumn_map_condition_filtered_row_count", "VALUE", TRUE>> >>
          [] OTHER -> << >>)

ConditionCalls(engine, fn_type, domain_type) ==
    CASE engine = "PandasExecutionEngine" -> PandasConditionCalls(fn_type, domain_type)
      [] engine = "SqlAlchemyExecutionEngine" -> SqlAlchemyConditionCalls(fn_type, domain_type)
      [] OTHER -> SparkConditionCalls(fn_type, domain_type)

RECURSIVE ApplyCalls(_, _, _, _, _, _)
ApplyCalls(reg, calls, metric_name, value_keys, engine, cname) ==
    IF calls = <<>> THEN reg
    ELSE LET c == Head(calls)
         IN ApplyCalls(
              register_metric(reg, metric_name \o c[1],
                              IF c[4] THEN value_keys \cup {"result_format"}
                                      ELSE value_keys,
                              engine, cname, c[2], c[3]),
              Tail(calls), metric_name, value_keys, engine, cname)

\* The member raises ValueError (the class lacks the metric name the
\* member's kind needs) instead of registering.
RegistrationRaises(m) ==
    LET c == ClassNamed(m.cls)
    IN IF m.metric_fn_type \in ConditionFnTypes
       THEN c.condition_metric_name = <<>>
       ELSE c.function_metric_name = <<>>

\* MapMetricProvider._register_metric_functions, for one decorated member
RegisterMember(reg, m) ==
    LET c == ClassNamed(m.cls)
    IN IF m.metric_fn_type \in ConditionFnTypes
       THEN ApplyCalls(reg,
                       ConditionCalls(m.engine, m.metric_fn_type, c.domain_type),
                       c.condition_metric_name, c.condition_value_keys,
                       m.engine, c.name)
       ELSE register_metric(reg, c.function_metric_name \o <<"map">>, {},
                            m.engine, c.name, "map_function_provider",
                            m.metric_fn_type)

\* ------------------------------------------------------------------------
\* Dependency resolver
\* ------------------------------------------------------------------------

NoDependencies == <<>>

\* mutant: the loop does not hold ".unexpected_rows"
RealizationSuffixesWithoutRows ==
    << <<"unexpected_values">>, <<"unexpected_value_counts">>,
       <<"unexpected_index_list">>, <<"filtered_row_count">> >>

\* The loop over the five realization suffixes of
\* MapMetricProvider._get_evaluation_dependencies
RealizationSuffixes ==
    << <<"unexpected_values">>, <<"unexpected_value_counts">>,
       <<"unexpected_index_list">>, <<"unexpected_rows">>,
       <<"filtered_row_count">> >>

\* mutant: result_format is kept
all_metric_value_kwargs(metric) == metric.metric_value_kwargs

\* value kwargs without result_format
base_metric_value_kwargs(metric) == Without(metric.metric_value_kwargs, {"result_format"})

\* mutant: the suffix is not stripped before ".condition" is appended
ConditionDependencyUnstripped(metric, metric_suffix) ==
    MetricConfiguration(
        metric.metric_name \o <<"condition">>,
        metric.metric_domain_kwargs,
        base_metric_value_kwargs(metric))

\* mutant: the condition is requested for the table domain
ConditionDependencyTableDomain(metric, metric_suffix) ==
    MetricConfiguration(
        StripSuffix(metric.metric_name, metric_suffix) \o <<"condition">>,
        Without(metric.metric_domain_kwargs, {"column"}),
        base_metric_value_kwargs(metric))

\* mutant: the stripped name is given the suffix ".unexpected_count"
ConditionDependencyCyclic(metric, metric_suffix) ==
    MetricConfiguration(
        StripSuffix(metric.metric_name, metric_suffix) \o <<"unexpected_count">>,
        metric.metric_domain_kwargs,
        base_metric_value_kwargs(metric))

\* the dependency of a metric on the condition its suffix was stripped from
ConditionDependency(metric, metric_suffix) ==
    MetricConfiguration(
        StripSuffix(metric.metric_name, metric_suffix) \o <<"condition">>,
        metric.metric_domain_kwargs,
        base_metric_value_kwargs(metric))

\* mutant: the partial function is requested under the metric's own name
AggregateFnDependencyUnsuffixed(metric) ==
    MetricConfiguration(
        metric.metric_name,
        metric.metric_domain_kwargs,
        base_metric_value_kwargs(metric))

\* the dependency of X.unexpected_count on X.unexpected_count.aggregate_fn
AggregateFnDependency(metric) ==
    MetricConfiguration(
        metric.metric_name \o <<"aggregate_fn">>,
        metric.metric_domain_kwargs,
        base_metric_value_kwargs(metric))

RECURSIVE SuffixLoop(_, _, _)
SuffixLoop(metric, suffixes, dependencies) ==
    IF suffixes = <<>> THEN dependencies
    ELSE SuffixLoop(metric, Tail(suffixes),
            IF EndsWith(metric.metric_name, Head(suffixes))
            THEN SetItem(dependencies, "unexpected_condition",
                         ConditionDependency(metric, Head(suffixes)))
            ELSE dependencies)

\* MapMetricProvider._get_evaluation_dependencies
MapGetEvaluationDependencies(metric, execution_engine, reg) ==
    LET metric_name == metric.metric_name
        has_aggregate_fn ==
            IsRegistered(reg, metric_name \o <<"aggregate_fn">>, execution_engine)
        d1 == IF EndsWith(metric_name, <<"unexpected_count">>)
              THEN IF has_aggregate_fn
                   THEN SetItem(NoDependencies, "metric_partial_fn",
                                AggregateFnDependency(metric))
                   ELSE SetItem(NoDependencies, "unexpected_condition",
                                ConditionDependency(metric, <<"unexpected_count">>))
              ELSE NoDependencies
        d2 == IF EndsWith(metric_name, <<"unexpected_count", "aggregate_fn">>)
              THEN SetItem(d1, "unexpected_condition",
                           ConditionDependency(metric, <<"unexpected_count", "aggregate_fn">>))
              ELSE d1
        d3 == SuffixLoop(metric, RealizationSuffixes, d2)
    IN IF IsRegistered(reg, metric_name \o <<"map">>, execution_engine)
       THEN SetItem(d3, "metric_map_fn",
                    MetricConfiguration(metric_name \o <<"map">>,
                                        metric.metric_domain_kwargs,
                                        metric.metric_value_kwargs))
       ELSE d3

\* mutant: ignore_row_if is kept in the table domain
TableDomainDroppedKeysKeepIgnore(base) ==
    CASE base = "ColumnMapMetricProvider" -> {"column"}
      [] base = "ColumnPairMapMetricProvider" -> {"column_A", "column_B"}
      [] base = "MulticolumnMapMetricProvider" -> {"column_list"}
      [] OTHER -> {}

\* the keys each column-domain provider class drops for the table domain
TableDomainDroppedKeys(base) ==
    CASE base = "ColumnMapMetricProvider" -> {"column"}
      [] base = "ColumnPairMapMetricProvider" -> {"column_A", "column_B", "ignore_row_if"}
      [] base = "MulticolumnMapMetricProvider" -> {"column_list", "ignore_row_if"}
      [] OTHER -> {}

\* table_domain_kwargs of the column-domain _get_evaluation_dependencies
table_domain_kwargs(metric, base) ==
    Without(metric.metric_domain_kwargs, TableDomainDroppedKeys(base))

\* the three table metrics every column-domain provider class adds
TableDependencies(dependencies, tdk) ==
    SetItem(
      SetItem(
        SetItem(dependencies, "table.column_types",
                MetricConfiguration(<<"table", "column_types">>, tdk,
                                    [include_nested |-> TRUE])),
        "table.columns",
        MetricConfiguration(<<"table", "columns">>, tdk, NoKwargs)),
      "table.row_count",
      MetricConfiguration(<<"table", "row_count">>, tdk, NoKwargs))

\* ColumnMapMetricProvider._get_evaluation_dependencies
ColumnGetEvaluationDependencies(metric, execution_engine, reg) ==
    TableDependencies(MapGetEvaluationDependencies(metric, execution_engine, reg),
                      table_domain_kwargs(metric, "ColumnMapMetricProvider"))

\* ColumnPairMapMetricProvider._get_evaluation_dependencies
ColumnPairGetEvaluationDependencies(metric, execution_engine, reg) ==
    TableDependencies(MapGetEvaluationDependencies(metric, execution_engine, reg),
                      table_domain_kwargs(metric, "ColumnPairMapMetricProvider"))

\* MulticolumnMapMetricProvider._get_evaluation_dependencies
MulticolumnGetEvaluationDependencies(metric, execution_engine, reg) ==
    TableDependencies(MapGetEvaluationDependencies(metric, execution_engine, reg),
                      table_domain_kwargs(metric, "MulticolumnMapMetricProvider"))

\* cls._get_evaluation_dependencies: dispatch on the provider class
GetEvaluationDependencies(cname, metric, execution_engine, reg) ==
    LET base == ClassNamed(cname).base
    IN CASE base = "ColumnMapMetricProvider" ->
               ColumnGetEvaluationDependencies(metric, execution_engine, reg)
         [] base = "ColumnPairMapMetricProvider" ->
               ColumnPairGetEvaluationDependencies(metric, execution_engine, reg)
         [] base = "MulticolumnMapMetricProvider" ->
               MulticolumnGetEvaluationDependencies(metric, execution_engine, reg)
         [] OTHER -> MapGetEvaluationDependencies(metric, execution_engine, reg)

\* ------------------------------------------------------------------------
\* Requests
\* ------------------------------------------------------------------------

RequestSuffixes ==
    { <<"condition">>, <<"unexpected_count">>, <<"unexpected_count", "aggregate_fn">>,
      <<"unexpected_values">>, <<"unexpected_value_counts">>,
      <<"unexpected_index_list">>, <<"unexpected_rows">>, <<"filtered_row_count">>,
      <<"unexpected_values", "unexpected_count">> }

\* the metric names requested of a provider class
RequestNames(c) ==
    (IF c.condition_metric_name = <<>> THEN {}
     ELSE { c.condition_metric_name \o s : s \in RequestSuffixes })
    \cup (IF c.function_metric_name = <<>> THEN {}
          ELSE { c.function_metric_name, c.function_metric_name \o <<"map">> })

\* domain kwargs of requests, per domain type
DomainKwargsSamples(domain_type) ==
    CASE domain_type = "COLUMN" ->
            { [batch_id |-> "b1", column |-> "a"],
              [batch_id |-> "b1", row_condition |-> "a > 0",
               condition_parser |-> "pandas", column |-> "zz"] }
      [] domain_type = "COLUMN_PAIR" ->
            { [batch_id |-> "b1", column_A |-> "a", column_B |-> "b",
               ignore_row_if |-> "neither"],
              [row_condition |-> "a > 0", condition_parser |-> "pandas",
               column_A |-> "a", column_B |-> "zz"] }
      [] domain_type = "MULTICOLUMN" ->
            { [batch_id |-> "b1", column_list |-> <<"a", "b">>,
               ignore_row_if |-> "never"],
              [row_condition |-> "a > 0", condition_parser |-> "pandas",
               column_list |-> <<"a", "zz">>] }
      [] OTHER -> { [batch_id |-> "b1"] }

ValueKwargsSamples ==
    { [threshold |-> 3],
      [threshold |-> 3,
       result_format |-> [result_format |-> "COMPLETE", partial_unexpected_count |-> 20]],
      [threshold |-> 3,
       result_format |-> [result_format |-> "BASIC", partial_unexpected_count |-> 2]] }

\* the kwargs a provider class is requested with: the filtered domains with
\* the capped result format, the unfiltered ones with the other value kwargs
RequestKwargs(c) ==
    { kw \in DomainKwargsSamples(c.domain_type) \X ValueKwargsSamples :
        ("row_condition" \in DOMAIN kw[1])
          <=> ("result_format" \in DOMAIN kw[2]
               /\ kw[2]["result_format"].result_format = "BASIC") }

\* ------------------------------------------------------------------------
\* Partial adapters and realization providers
\*
\* An invocation ends by raising an exception or by returning; for a partial
\* adapter metric_fn_invoked tells whether the wrapped function was called.
\* table_columns is the value of metrics["table.columns"].
\* ------------------------------------------------------------------------

InvalidKey == "InvalidMetricAccessorDomainKwargsKeyError"

Raise(e) == [raised |-> e, metric_fn_invoked |-> FALSE]
Return == [raised |-> "None", metric_fn_invoked |-> FALSE]
MetricFnResult == [raised |-> "None", metric_fn_invoked |-> TRUE]

\* mutant: only the first column of the list is looked up
ColumnMissingFirstOnly(column_list, table_columns) ==
    column_list # <<>> /\ column_list[1] \notin table_columns

\* for column_name in column_list: column_name not in metrics["table.columns"]
ColumnMissing(column_list, table_columns) ==
    \E i \in 1..Len(column_list) : column_list[i] \notin table_columns

\* column_function_partial: the inner_func of its pandas, sqlalchemy and
\* spark wrappers, which look the column up before they call metric_fn
column_function_partial(accessor_domain_kwargs, table_columns) ==
    IF "column" \notin DOMAIN accessor_domain_kwargs THEN Raise("KeyError")
    ELSE IF ColumnMissing(<<accessor_domain_kwargs["column"]>>, table_columns)
         THEN Raise(InvalidKey)
         ELSE MetricFnResult

\* column_condition_partial
column_condition_partial(accessor_domain_kwargs, table_columns) ==
    IF "column" \notin DOMAIN accessor_domain_kwargs THEN Raise("KeyError")
    ELSE IF ColumnMissing(<<accessor_domain_kwargs["column"]>>, table_columns)
         THEN Raise(InvalidKey)
         ELSE MetricFnResult

\* column_pair_function_partial
column_pair_function_partial(accessor_domain_kwargs, table_columns) ==
    IF ~({"column_A", "column_B"} \subseteq DOMAIN accessor_domain_kwargs)
    THEN Raise("KeyError")
    ELSE IF ColumnMissing(<<accessor_domain_kwargs["column_A"],
                            accessor_domain_kwargs["column_B"]>>, table_columns)
         THEN Raise(InvalidKey)
         ELSE MetricFnResult

\* column_pair_condition_partial
column_pair_condition_partial(accessor_domain_kwargs, table_columns) ==
    IF ~({"column_A", "column_B"} \subseteq DOMAIN accessor_domain_kwargs)
    THEN Raise("KeyError")
    ELSE IF ColumnMissing(<<accessor_domain_kwargs["column_A"],
                            accessor_domain_kwargs["column_B"]>>, table_columns)
         THEN Raise(InvalidKey)
         ELSE MetricFnResult

\* multicolumn_function_partial
multicolumn_function_partial(accessor_domain_kwargs, table_columns) ==
    IF "column_list" \notin DOMAIN accessor_domain_kwargs THEN Raise("KeyError")
    ELSE IF ColumnMissing(accessor_domain_kwargs["column_list"], table_columns)
         THEN Raise(InvalidKey)
         ELSE MetricFnResult

\* multicolumn_condition_partial
multicolumn_condition_partial(accessor_domain_kwargs, table_columns) ==
    IF "column_list" \notin DOMAIN accessor_domain_kwargs THEN Raise("KeyError")
    ELSE IF ColumnMissing(accessor_domain_kwargs["column_list"], table_columns)
         THEN Raise(InvalidKey)
         ELSE MetricFnResult

PartialDecorators ==
    {"column_function_partial", "column_condition_partial",
     "column_pair_function_partial", "column_pair_condition_partial",
     "multicolumn_function_partial", "multicolumn_condition_partial"}

\* the inner_func a decorator wraps around metric_fn
PartialOutcome(decorator, accessor_domain_kwargs, table_columns) ==
    CASE decorator = "column_function_partial" ->
            column_function_partial(accessor_domain_kwargs, table_columns)
      [] decorator = "column_condition_partial" ->
            column_condition_partial(accessor_domain_kwargs, table_columns)
      [] decorator = "column_pair_function_partial" ->
            column_pair_function_partial(accessor_domain_kwargs, table_columns)
      [] decorator = "column_pair_condition_partial" ->
            column_pair_condition_partial(accessor_domain_kwargs, table_columns)
      [] decorator = "multicolumn_function_partial" ->
            multicolumn_function_partial(accessor_domain_kwargs, table_columns)
      [] OTHER ->
            multicolumn_condition_partial(accessor_domain_kwargs, table_columns)

\* _pandas_map_condition_unexpected_count, and the aggregate_fn providers of
\* sqlalchemy and spark and _spark_map_condition_unexpected_count_value:
\* no accessor key is read and no column is looked up
MapConditionUnexpectedCount(accessor_domain_kwargs, table_columns) == Return

\* _sqlalchemy_map_condition_unexpected_count_value: no column is looked up;
\* an OperationalError of the backend is raised as the accessor key error
SqlAlchemyMapConditionUnexpectedCountValue(accessor_domain_kwargs, table_columns, operational_error) ==
    IF operational_error THEN Raise(InvalidKey) ELSE Return

\* _pandas_column_map_condition_values, and the column values and value
\* counts providers of sqlalchemy and spark
ColumnMapConditionValues(accessor_domain_kwargs, table_columns) ==
    IF "column" \notin DOMAIN accessor_domain_kwargs THEN Raise("ValueError")
    ELSE IF accessor_domain_kwargs["column"] \notin table_columns
         THEN Raise(InvalidKey)
         ELSE Return

\* _pandas_column_map_condition_value_counts: the accessor is subscripted
\* before the test for the key
PandasColumnMapConditionValueCounts(accessor_domain_kwargs, table_columns) ==
    IF "column" \notin DOMAIN accessor_domain_kwargs THEN Raise("KeyError")
    ELSE IF accessor_domain_kwargs["column"] \notin table_columns
         THEN Raise(InvalidKey)
         ELSE Return

\* _pandas_column_pair_map_condition_values and
\* _pandas_column_pair_map_condition_filtered_row_count
PandasColumnPairMapCondition(accessor_domain_kwargs, table_columns) ==
    IF ~({"column_A", "column_B"} \subseteq DOMAIN accessor_domain_kwargs)
    THEN Raise("ValueError")
    ELSE IF ColumnMissing(<<accessor_domain_kwargs["column_A"],
                            accessor_domain_kwargs["column_B"]>>, table_columns)
         THEN Raise(InvalidKey)
         ELSE Return

\* _sqlalchemy_column_pair_map_condition_values, and the other column pair
\* providers of sqlalchemy and spark: the accessor is subscripted untested
ColumnPairMapCondition(accessor_domain_kwargs, table_columns) ==
    IF ~({"column_A", "column_B"} \subseteq DOMAIN accessor_domain_kwargs)
    THEN Raise("KeyError")
    ELSE IF ColumnMissing(<<accessor_domain_kwargs["column_A"],
                            accessor_domain_kwargs["column_B"]>>, table_columns)
         THEN Raise(InvalidKey)
         ELSE Return

\* the multicolumn values and filtered_row_count providers of every engine
MulticolumnMapCondition(accessor_domain_kwargs, table_columns) ==
    IF "column_list" \notin DOMAIN accessor_domain_kwargs THEN Raise("ValueError")
    ELSE IF ColumnMissing(accessor_domain_kwargs["column_list"], table_columns)
         THEN Raise(InvalidKey)
         ELSE Return

\* _pandas_map_condition_index and _pandas_map_condition_rows: the column is
\* looked up under "column", else under "column_list", else not at all
PandasMapConditionIndex(accessor_domain_kwargs, table_columns) ==
    IF "column" \in DOMAIN accessor_domain_kwargs
    THEN IF accessor_domain_kwargs["column"] \notin table_columns
         THEN Raise(InvalidKey)
         ELSE Return
    ELSE IF "column_list" \in DOMAIN accessor_domain_kwargs
         THEN IF ColumnMissing(accessor_domain_kwargs["column_list"], table_columns)
              THEN Raise(InvalidKey)
              ELSE Return
         ELSE Return

\* _sqlalchemy_map_condition_rows: every table column is selected, no
\* accessor column is looked up; an OperationalError of the backend is
\* raised as the accessor key error
SqlAlchemyMapConditionRows(accessor_domain_kwargs, table_columns, operational_error) ==
    IF operational_error THEN Raise(InvalidKey) ELSE Return

\* _spark_map_condition_rows: no column is looked up
SparkMapConditionRows(accessor_domain_kwargs, table_columns) == Return

\* the providers _register_metric_functions registers for realization metrics
RealizationProviders ==
    UNION { { ConditionCalls(e, t, d)[i][2] :
                i \in 1..Len(ConditionCalls(e, t, d)) } :
            e \in Engines, t \in ConditionFnTypes,
            d \in {"COLUMN", "COLUMN_PAIR", "MULTICOLUMN"} }
      \ {"condition_provider", "None"}

\* the outcome of a realization provider called with the accessor domain
\* kwargs of metrics["unexpected_condition"] and metrics["table.columns"]
ProviderOutcome(provider, accessor_domain_kwargs, table_columns, operational_error) ==
    CASE provider \in {"_pandas_map_condition_unexpected_count",
                       "_sqlalchemy_map_condition_unexpected_count_aggregate_fn",
                       "_spark_map_condition_unexpected_count_aggregate_fn",
                       "_spark_map_condition_unexpected_count_value"} ->
            MapConditionUnexpectedCount(accessor_domain_kwargs, table_columns)
      [] provider = "_sqlalchemy_map_condition_unexpected_count_value" ->
            SqlAlchemyMapConditionUnexpectedCountValue(
                accessor_domain_kwargs, table_columns, operational_error)
      [] provider \in {"_pandas_column_map_condition_values",
                       "_sqlalchemy_column_map_condition_values",
                       "_sqlalchemy_column_map_condition_value_counts",
                       "_spark_column_map_condition_values",
                       "_spark_column_map_condition_value_counts"} ->
            ColumnMapConditionValues(accessor_domain_kwargs, table_columns)
      [] provider = "_pandas_column_map_condition_value_counts" ->
            PandasColumnMapConditionValueCounts(accessor_domain_kwargs, table_columns)
      [] provider \in {"_pandas_column_pair_map_condition_values",
                       "_pandas_column_pair_map_condition_filtered_row_count"} ->
            PandasColumnPairMapCondition(accessor_domain_kwargs, table_columns)
      [] provider \in {"_sqlalchemy_column_pair_map_condition_values",
                       "_sqlalchemy_column_pair_map_condition_filtered_row_count",
                       "_spark_column_pair_map_condition_values",
                       "_spark_column_pair_map_condition_filtered_row_count"} ->
            ColumnPairMapCondition(accessor_domain_kwargs, table_columns)
      [] provider \in {"_pandas_multicolumn_map_condition_values",
                       "_pandas_multicolumn_map_condition_filtered_row_count",
                       "_sqlalchemy_multicolumn_map_condition_values",
                       "_sqlalchemy_multicolumn_map_condition_filtered_row_count",
                       "_spark_multicolumn_map_condition_values",
                       "_spark_multicolumn_map_condition_filtered_row_count"} ->
            MulticolumnMapCondition(accessor_domain_kwargs, table_columns)
      [] provider \in {"_pandas_map_condition_index", "_pandas_map_condition_rows"} ->
            PandasMapConditionIndex(accessor_domain_kwargs, table_columns)
      [] provider = "_sqlalchemy_map_condition_rows" ->
            SqlAlchemyMapConditionRows(accessor_domain_kwargs, table_columns,
                                       operational_error)
      [] OTHER -> SparkMapConditionRows(accessor_domain_kwargs, table_columns)

\* the accessor keys a provider's domain kind refers columns by ({}: the
\* provider serves every domain kind)
ProviderAccessorKeys(provider) ==
    CASE provider \in {"_pandas_column_map_condition_values",
                       "_pandas_column_map_condition_value_counts",
                       "_sqlalchemy_column_map_condition_values",
                       "_sqlalchemy_column_map_condition_value_counts",
                       "_spark_column_map_condition_values",
                       "_spark_column_map_condition_value_counts"} -> {"column"}
      [] provider \in {"_pandas_column_pair_map_condition_values",
                       "_pandas_column_pair_map_condition_filtered_row_count",
                       "_sqlalchemy_column_pair_map_condition_values",
                       "_sqlalchemy_column_pair_map_condition_filtered_row_count",
                       "_spark_column_pair_map_condition_values",
                       "_spark_column_pair_map_condition_filtered_row_count"} ->
            {"column_A", "column_B"}
      [] provider \in {"_pandas_multicolumn_map_condition_values",
                       "_pandas_multicolumn_map_condition_filtered_row_count",
                       "_sqlalchemy_multicolumn_map_condition_values",
                       "_sqlalchemy_multicolumn_map_condition_filtered_row_count",
                       "_spark_multicolumn_map_condition_values",
                       "_spark_multicolumn_map_condition_filtered_row_count"} ->
            {"column_list"}
      [] OTHER -> {}

\* get_compute_domain: the accessor part of the domain kwargs of a domain
\* type, which the condition returns with its result
accessor_domain_kwargs_of(domain_kwargs, domain_type) ==
    LET keys == CASE domain_type = "COLUMN" -> {"column"}
                  [] domain_type = "COLUMN_PAIR" ->
                        {"column_A", "column_B", "ignore_row_if"}
                  [] domain_type = "MULTICOLUMN" -> {"column_list", "ignore_row_if"}
                  [] OTHER -> {}
    IN [k \in (DOMAIN domain_kwargs) \cap keys |-> domain_kwargs[k]]

DomainTypes == {"TABLE", "COLUMN", "COLUMN_PAIR", "MULTICOLUMN"}

\* the accessor domain kwargs providers are called with
AccessorKwargsSamples ==
    { accessor_domain_kwargs_of(dk, dt) :
        dk \in UNION { DomainKwargsSamples(d) : d \in DomainTypes }, dt \in DomainTypes }

\* the values of table.columns: the column "zz" is not in the first
TableColumnsSamples == { {"a", "b"}, {"a", "b", "zz"} }

\* ------------------------------------------------------------------------
\* Resolution of a validation run
\* ------------------------------------------------------------------------

\* number of resolvers that resolve independent metrics of one run
MaxResolvers == 2

NoMetric == <<>>

\* the roles of its metrics argument a provider subscripts
ProviderReads(provider) ==
    CASE provider \in {"condition_provider", "map_function_provider"} ->
            {"table.columns"}
      [] provider \in {"_pandas_map_condition_unexpected_count",
                       "_sqlalchemy_map_condition_unexpected_count_aggregate_fn",
                       "_sqlalchemy_map_condition_unexpected_count_value",
                       "_spark_map_condition_unexpected_count_aggregate_fn",
                       "_spark_map_condition_unexpected_count_value",
                       "_spark_map_condition_rows"} -> {"unexpected_condition"}
      [] provider \in RealizationProviders -> {"unexpected_condition", "table.columns"}
      [] OTHER -> {}

\* the provider registered for a metric ("table": a table metric, which the
\* map metric providers do not register)
ProviderOf(reg, metric, engine) ==
    IF IsRegistered(reg, metric.metric_name, engine)
    THEN reg[<<metric.metric_name, engine>>].metric_provider
    ELSE "table"

\* the dependencies of a metric, computed by the class registered for it
DependenciesOf(reg, metric, engine) ==
    IF IsRegistered(reg, metric.metric_name, engine)
    THEN GetEvaluationDependencies(reg[<<metric.metric_name, engine>>].metric_class,
                                   metric, engine, reg)
    ELSE NoDependencies

\* the metrics a set of requested metrics transitively requires
RECURSIVE ExpandDependencies(_, _, _)
ExpandDependencies(reg, metrics, engine) ==
    LET more == metrics \cup UNION { Range(DependenciesOf(reg, m, engine)) : m \in metrics }
    IN IF more = metrics THEN metrics ELSE ExpandDependencies(reg, more, engine)

\* the names registered for an engine
RegisteredNames(reg, engine) == { k[1] : k \in { q \in DOMAIN reg : q[2] = engine } }

\* the kwargs of the requests of a run
RunKwargs(c) == { kw \in RequestKwargs(c) : "row_condition" \in DOMAIN kw[1] }

\* ------------------------------------------------------------------------
\* Batch data and the unexpected condition of a column map metric
\* ------------------------------------------------------------------------

MaxRows == 3
MaxPartial == 2

\* the truncation of COMPLETE results on BigQuery
BigQueryLimit == 10000

Null == "null"
Cells == {Null, "x", "y"}

Min(a, b) == IF a < b THEN a ELSE b

\* the column of a table, its rows in their original order
SmallTables == UNION { [1..n -> Cells] : n \in 0..MaxRows }
LargeTable == [i \in 1..(BigQueryLimit + 1) |-> "y"]
Tables == SmallTables \cup {LargeTable}

\* a DataFrame: every row carries its index label
DataFrame(table) == [i \in 1..Len(table) |-> [index |-> i - 1, value |-> table[i]]]

\* df[df[column_name].notnull()]
notnull(df) == SelectSeq(df, LAMBDA r : r.value # Null)

\* the three-valued logic of SQL and Spark column expressions
Truth == {"TRUE", "FALSE", "NULL"}
sa_not(t) == CASE t = "TRUE" -> "FALSE" [] t = "FALSE" -> "TRUE" [] OTHER -> "NULL"
sa_and(a, b) == IF a = "FALSE" \/ b = "FALSE" THEN "FALSE" ELSE IF a = "NULL" \/ b = "NULL" THEN "NULL" ELSE "TRUE"
is_null(c) == IF c = Null THEN "TRUE" ELSE "FALSE"

\* the business functions of a condition: per cell, whether it meets the expectation
ConditionFns == { f \in [Cells -> Truth] : \A c \in Cells \ {Null} : f[c] # "NULL" }
\* the business function evaluated on the large table: only "x" meets the expectation
LargeTableFns == { f \in ConditionFns : f["x"] = "TRUE" /\ f["y"] = "FALSE" /\ f[Null] = "NULL" }
\* a pandas business function returns a boolean Series
SeriesConditionFns == { f \in ConditionFns : f[Null] # "NULL" }
\* the business functions of a map function: per cell, a value
MapFns == [Cells -> {0, 1}]

\* the attributes a provider class sets itself, and the decorator's keywords
ClassAttributes == { <<>>, [filter_column_isnull |-> FALSE], [filter_column_isnull |-> TRUE] }
DecoratorKwargs == { <<>>, [filter_column_isnull |-> FALSE], [filter_column_isnull |-> TRUE] }

\* the attributes of class MapMetricProvider, inherited by every provider class
MapMetricProviderAttributes == [filter_column_isnull |-> TRUE]

\* getattr(cls, name, default)
getattr(cls, name, default) == IF name \in DOMAIN cls THEN cls[name] ELSE IF name \in DOMAIN MapMetricProviderAttributes THEN MapMetricProviderAttributes[name] ELSE default

\* kwargs.get("filter_column_isnull", getattr(cls, "filter_column_isnull", default))
FilterColumnIsNull(kwargs, cls, default) == IF "filter_column_isnull" \in DOMAIN kwargs THEN kwargs.filter_column_isnull ELSE getattr(cls, "filter_column_isnull", default)

\* the default of a function partial and of a condition partial
FunctionPartialDefault == FALSE
ConditionPartialDefault == TRUE

\* pandas column_function_partial: the values of the business function over the rows kept
PandasColumnFunction(df, metric_fn, kwargs, cls) ==
    LET d == IF FilterColumnIsNull(kwargs, cls, FunctionPartialDefault) THEN notnull(df) ELSE df
    IN [i \in 1..Len(d) |-> [index |-> d[i].index, value |-> metric_fn[d[i].value]]]

\* pandas column_condition_partial: the negated boolean Series of the rows kept,
\* by index label
PandasColumnCondition(df, metric_fn, kwargs, cls) ==
    LET d == IF FilterColumnIsNull(kwargs, cls, ConditionPartialDefault) THEN notnull(df) ELSE df
    IN [idx \in { d[i].index : i \in 1..Len(d) } |-> ~(metric_fn[df[idx + 1].value] = "TRUE")]

\* the negated business function alone
SqlAlchemyColumnConditionUnfiltered(metric_fn, kwargs, cls) == [c \in Cells |-> sa_not(metric_fn[c])]

\* sqlalchemy column_condition_partial: the stored predicate, by its value on each cell
SqlAlchemyColumnCondition(metric_fn, kwargs, cls) ==
    [c \in Cells |->
        IF FilterColumnIsNull(kwargs, cls, ConditionPartialDefault)
        THEN sa_and(sa_not(is_null(c)), sa_not(metric_fn[c]))
        ELSE sa_not(metric_fn[c])]

\* spark column_condition_partial: a window condition leaves the null filter to the
\* compute domain, a plain condition conjoins it
SparkColumnCondition(metric_fn, kwargs, cls, partial_fn_type) ==
    [c \in Cells |->
        IF partial_fn_type = "WINDOW_CONDITION_FN" THEN sa_not(metric_fn[c])
        ELSE IF FilterColumnIsNull(kwargs, cls, ConditionPartialDefault)
        THEN sa_and(sa_not(is_null(c)), sa_not(metric_fn[c]))
        ELSE sa_not(metric_fn[c])]

\* the rows of a column pair, and two business functions over them: A = B, and
\* A = B or both null
PairCells == Cells \X Cells
PairEqual == [p \in PairCells |-> IF p[1] = Null \/ p[2] = Null THEN "NULL" ELSE IF p[1] = p[2] THEN "TRUE" ELSE "FALSE"]
PairNotDistinct == [p \in PairCells |-> IF p[1] = p[2] THEN "TRUE" ELSE "FALSE"]
PairConditionFns == {PairEqual, PairNotDistinct}

\* column_pair_condition_partial: the stored predicate, by its value on each row
ColumnPairCondition(metric_fn) == [p \in PairCells |-> sa_not(metric_fn[p])]

\* whether the partial adds the null row condition to the compute domain
AddsColumnRowCondition(engine, partial_fn_type, kwargs, cls) ==
    /\ engine = "SparkDFExecutionEngine"
    /\ partial_fn_type = "WINDOW_CONDITION_FN"
    /\ FilterColumnIsNull(kwargs, cls, ConditionPartialDefault)

\* sqlalchemy and spark column_function_partial: the null row condition is added to
\* the compute domain, the column function is evaluated over its rows
QueryColumnFunction(table, metric_fn, kwargs, cls) ==
    LET rows == IF FilterColumnIsNull(kwargs, cls, FunctionPartialDefault)
                THEN SelectSeq(table, LAMBDA c : c # Null) ELSE table
    IN [i \in 1..Len(rows) |-> metric_fn[rows[i]]]

\* ------------------------------------------------------------------------
\* Realization providers over the data
\* ------------------------------------------------------------------------

Returns(v) == [raised |-> "None", value |-> v]
Raises(e) == [raised |-> e, value |-> <<>>]

ResultFormats == {"BASIC", "SUMMARY", "COMPLETE"}
ResultFormatSamples == { [result_format |-> f, partial_unexpected_count |-> p] : f \in ResultFormats, p \in 0..MaxPartial }

\* the last n items of s
TakeLast(s, n) == SubSeq(s, Len(s) - Min(n, Len(s)) + 1, Len(s))

\* s[: n] for n >= 0
Take(s, n) == SubSeq(s, 1, Min(n, Len(s)))

Reverse(s) == [i \in 1..Len(s) |-> s[Len(s) + 1 - i]]

\* the order in which a database returns the rows of a query without ORDER BY
ScanOrders == {"forward", "backward"}
Scan(records, order) == IF order = "forward" THEN records ELSE Reverse(records)

Column(d) == [i \in 1..Len(d) |-> d[i].value]
Index(d) == [i \in 1..Len(d) |-> d[i].index]

\* pandas aligns a boolean Series used as an indexer with the indexed object and
\* raises when a row of the object has no entry in it
Aligned(d, mask) == \A i \in 1..Len(d) : d[i].index \in DOMAIN mask
BooleanIndex(d, mask) == SelectSeq(d, LAMBDA r : mask[r.index])

\* the rows a pandas realization provider indexes: it reads the class attribute only
ProviderRecords(cls, df) == IF getattr(cls, "filter_column_isnull", FALSE) THEN notnull(df) ELSE df

\* the number of entries of the mask, unexpected or not
pandas_map_condition_count_all(mask) == Returns(Cardinality(DOMAIN mask))

\* np.count_nonzero(metrics["unexpected_condition"][0])
pandas_map_condition_unexpected_count(mask) == Returns(Cardinality({ idx \in DOMAIN mask : mask[idx] }))

pandas_column_map_condition_values(cls, df, mask, result_format) ==
    LET d == ProviderRecords(cls, df)
    IN IF ~Aligned(d, mask) THEN Raises("IndexingError")
       ELSE LET domain_values == Column(BooleanIndex(d, mask))
            IN IF result_format.result_format = "COMPLETE"
               THEN Returns(domain_values)
               ELSE Returns(Take(domain_values, result_format.partial_unexpected_count))

pandas_map_condition_index(cls, df, mask, result_format) ==
    LET d == ProviderRecords(cls, df)
    IN IF ~Aligned(d, mask) THEN Raises("IndexingError")
       ELSE LET index == Index(BooleanIndex(d, mask))
            IN IF result_format.result_format = "COMPLETE"
               THEN Returns(index)
               ELSE Returns(Take(index, result_format.partial_unexpected_count))

pandas_map_condition_rows(cls, df, mask, result_format) ==
    LET d == ProviderRecords(cls, df)
    IN IF ~Aligned(d, mask) THEN Raises("IndexingError")
       ELSE LET rows == BooleanIndex(d, mask)
            IN IF result_format.result_format = "COMPLETE"
               THEN Returns(rows)
               ELSE Returns(Take(rows, result_format.partial_unexpected_count))

\* the rows of the compute domain of a query-generating backend
DomainRecords(table, null_row_condition) == IF null_row_condition THEN SelectSeq(table, LAMBDA c : c # Null) ELSE table

\* WHERE keeps the rows on which the predicate is true
Where(records, predicate) == SelectSeq(records, LAMBDA c : predicate[c] = "TRUE")

\* CASE WHEN cond THEN 1 ELSE 0 END, per row
CaseColumn(records, predicate) == [i \in 1..Len(records) |-> IF predicate[records[i]] = "TRUE" THEN 1 ELSE 0]

RECURSIVE SumRange(_, _, _)
SumRange(column, lo, hi) ==
    IF lo > hi THEN 0
    ELSE IF lo = hi THEN column[lo]
    ELSE LET mid == (lo + hi) \div 2
         IN SumRange(column, lo, mid) + SumRange(column, mid + 1, hi)

\* SUM over a column: NULL (None) when there is no row
SqlNull == [null |-> TRUE]
SqlValue(n) == [null |-> FALSE, value |-> n]
sa_sum(column) == IF Len(column) = 0 THEN SqlNull ELSE SqlValue(SumRange(column, 1, Len(column)))

\* the aggregate the engine evaluates for unexpected_count.aggregate_fn
sqlalchemy_map_condition_unexpected_count_aggregate_fn(records, predicate) == Returns(sa_sum(CaseColumn(records, predicate)))

\* int(unexpected_count), 0 on TypeError
sqlalchemy_map_condition_unexpected_count_value(records, predicate) ==
    LET unexpected_count == sa_sum(CaseColumn(records, predicate))
    IN IF unexpected_count.null THEN Returns(0) ELSE Returns(unexpected_count.value)

\* the aggregate the engine evaluates for the Spark unexpected_count.aggregate_fn
spark_map_condition_unexpected_count_aggregate_fn(records, predicate) == Returns(sa_sum(CaseColumn(records, predicate)))

\* filtered.count()
spark_map_condition_unexpected_count_value(records, predicate) == Returns(Len(Where(records, predicate)))

sqlalchemy_column_map_condition_values(dialect, records, predicate, result_format) ==
    LET selected == Where(records, predicate)
    IN IF result_format.result_format # "COMPLETE"
       THEN Returns(Take(selected, result_format.partial_unexpected_count))
       ELSE IF dialect = "bigquery"
       THEN Returns(Take(selected, BigQueryLimit))
       ELSE Returns(selected)

sqlalchemy_map_condition_rows(records, predicate, result_format) ==
    LET selected == Where(records, predicate)
    IN IF result_format.result_format # "COMPLETE"
       THEN Returns(Take(selected, result_format.partial_unexpected_count))
       ELSE Returns(selected)

spark_column_map_condition_values(records, predicate, result_format) ==
    LET filtered == Where(records, predicate)
    IN IF result_format.result_format = "COMPLETE"
       THEN Returns(filtered)
       ELSE Returns(Take(filtered, result_format.partial_unexpected_count))

spark_map_condition_rows(records, predicate, result_format) ==
    LET filtered == Where(records, predicate)
    IN IF result_format.result_format = "COMPLETE"
       THEN Returns(filtered)
       ELSE Returns(Take(filtered, result_format.partial_unexpected_count))

\* the number of rows holding a value
Occurrences(records, v) == Len(SelectSeq(records, LAMBDA c : c = v))

\* the distinct values of the rows, one group each
CellOrder == <<Null, "x", "y">>
Groups(records) == SelectSeq(CellOrder, LAMBDA v : Occurrences(records, v) > 0)

\* Series.value_counts(): null dropped, most frequent first
value_counts(values) ==
    LET groups == SelectSeq(Groups(values), LAMBDA v : v # Null)
        counted == [i \in 1..Len(groups) |-> [value |-> groups[i], count |-> Occurrences(values, groups[i])]]
    IN SortSeq(counted, LAMBDA a, b : a.count > b.count)

\* bool(Series): pandas refuses to give a Series a truth value
SeriesTruthValue(series) == Raises("ValueError")

\* the two attempts of the pandas provider, each of which the data may make fail;
\* the second counts the values coerced to tuples
pandas_value_counts_attempts(values, direct_fails, fallback_fails) ==
    IF ~direct_fails THEN [attempts |-> 1, value_counts |-> Returns(value_counts(values))]
    ELSE IF ~fallback_fails
    THEN [attempts |-> 2,
          value_counts |-> LET tuples == value_counts(values)
                           IN Returns([i \in 1..Len(tuples) |-> [value |-> <<tuples[i].value>>, count |-> tuples[i].count]])]
    ELSE [attempts |-> 2, value_counts |-> Raises("ValueError")]

pandas_column_map_condition_value_counts(cls, df, mask, result_format, direct_fails, fallback_fails) ==
    LET d == ProviderRecords(cls, df)
    IN IF ~Aligned(d, mask) THEN Raises("IndexingError")
       ELSE LET attempt == pandas_value_counts_attempts(Column(BooleanIndex(d, mask)), direct_fails, fallback_fails)
                counts == attempt.value_counts
            IN IF counts.raised # "None" THEN Raises("MetricComputationError")
               ELSE IF SeriesTruthValue(counts.value).raised # "None" THEN SeriesTruthValue(counts.value)
               ELSE IF result_format.result_format = "COMPLETE" THEN counts
               ELSE IF result_format.partial_unexpected_count + 1 \in DOMAIN counts.value
               THEN Returns(counts.value[result_format.partial_unexpected_count + 1].count)
               ELSE Raises("IndexError")

\* SELECT column, COUNT(column) ... WHERE cond GROUP BY column: COUNT skips nulls
sqlalchemy_column_map_condition_value_counts(records, predicate, result_format) ==
    LET selected == Where(records, predicate)
        groups == Groups(selected)
    IN Returns([i \in 1..Len(groups) |->
                  [value |-> groups[i],
                   count |-> IF groups[i] = Null THEN 0 ELSE Occurrences(selected, groups[i])]])

spark_column_map_condition_value_counts(records, predicate, result_format) ==
    LET filtered == Where(records, predicate)
        groups == Groups(filtered)
        counted == [i \in 1..Len(groups) |-> [value |-> groups[i], count |-> Occurrences(filtered, groups[i])]]
    IN IF result_format.result_format = "COMPLETE"
       THEN Returns(counted)
       ELSE Returns(Take(counted, result_format.partial_unexpected_count))

\* ------------------------------------------------------------------------
\* Fully-qualified parameter names (rule_based_profiler/types/
\* parameter_container.py).  A string is the sequence of its characters,
\* so "$parameter.a" is <<"$", "p", ..., "r", ".", "a">>.
\* ------------------------------------------------------------------------

\* number of build_parameter_container calls of a behaviour
MaxWrites == 2

\* length of the longest part of a name that is parsed
MaxSegment == 6

FULLY_QUALIFIED_PARAMETER_NAME_DELIMITER_CHARACTER == "$"
FULLY_QUALIFIED_PARAMETER_NAME_SEPARATOR_CHARACTER == "."
DOMAIN_KWARGS_PARAMETER_NAME == <<"d", "o", "m", "a", "i", "n", "_", "k", "w", "a", "r", "g", "s">>
DOMAIN_KWARGS_PARAMETER_FULLY_QUALIFIED_NAME ==
    <<"$", "d", "o", "m", "a", "i", "n", ".">> \o DOMAIN_KWARGS_PARAMETER_NAME
PARAMETER_NAME_ROOT_FOR_VARIABLES == <<"v", "a", "r", "i", "a", "b", "l", "e", "s">>
VARIABLES_PREFIX == <<"$">> \o PARAMETER_NAME_ROOT_FOR_VARIABLES
PARAMETER_NAME_ROOT_FOR_PARAMETERS == <<"p", "a", "r", "a", "m", "e", "t", "e", "r">>
PARAMETER_PREFIX == <<"$">> \o PARAMETER_NAME_ROOT_FOR_PARAMETERS

\* str.startswith
startswith(s, prefix) ==
    Len(prefix) <= Len(s) /\ SubSeq(s, 1, Len(prefix)) = prefix

\* s[n:]
DropFirst(s, n) == IF n >= Len(s) THEN <<>> ELSE SubSeq(s, n + 1, Len(s))

\* the position of the first separator of s at or after position i, or
\* Len(s) + 1 when there is none
RECURSIVE find(_, _, _)
find(s, sep, i) ==
    IF i > Len(s) \/ s[i] = sep THEN i ELSE find(s, sep, i + 1)

\* str.split(sep): the pieces between the separators, empty pieces kept
RECURSIVE split(_, _)
split(s, sep) ==
    LET i == find(s, sep, 1)
    IN  IF i > Len(s) THEN <<s>>
        ELSE <<SubSeq(s, 1, i - 1)>> \o split(DropFirst(s, i), sep)

\* pyparsing character classes
alphas ==
    {"a", "b", "c", "d", "e", "f", "g", "h", "i", "j", "k", "l", "m", "n", "o", "p", "q",
     "r", "s", "t", "u", "v", "w", "x", "y", "z", "A", "B", "C", "D", "E", "F", "G", "H",
     "I", "J", "K", "L", "M", "N", "O", "P", "Q", "R", "S", "T", "U", "V", "W", "X", "Y",
     "Z"}
nums == {"0", "1", "2", "3", "4", "5", "6", "7", "8", "9"}
alphanums == alphas \cup nums

\* A pyparsing element applied to s at position loc gives the position after
\* its match, or NoMatch (ParseException).
NoMatch == 0

RECURSIVE WordEnd(_, _, _)
WordEnd(s, loc, bodyChars) ==
    IF loc <= Len(s) /\ s[loc] \in bodyChars THEN WordEnd(s, loc + 1, bodyChars) ELSE loc

\* Word(initChars, bodyChars): one initial character, then the longest run
\* of body characters
Word(s, loc, initChars, bodyChars) ==
    IF loc <= Len(s) /\ s[loc] \in initChars THEN WordEnd(s, loc + 1, bodyChars) ELSE NoMatch

Literal(s, loc, match) ==
    IF loc + Len(match) - 1 <= Len(s) /\ SubSeq(s, loc, loc + Len(match) - 1) = match
    THEN loc + Len(match)
    ELSE NoMatch

\* the tokens of a parse: a string or an integer
StrToken(s) == [str |-> s]
IntToken(n) == [int |-> n]

DigitValue(c) == CHOOSE n \in 0..9 : <<"0", "1", "2", "3", "4", "5", "6", "7", "8", "9">>[n + 1] = c

RECURSIVE DecimalValue(_)
DecimalValue(s) ==
    IF s = <<>> THEN 0 ELSE 10 * DecimalValue(SubSeq(s, 1, Len(s) - 1)) + DigitValue(s[Len(s)])

IsDecimal(s) == s # <<>> /\ \A i \in 1..Len(s) : s[i] \in nums

\* int(s) of the parse action: an optional sign, then digits; anything else
\* raises ValueError
int(s) ==
    IF IsDecimal(s) THEN [raised |-> "None", value |-> DecimalValue(s)]
    ELSE IF s # <<>> /\ s[1] = "-" /\ IsDecimal(DropFirst(s, 1))
         THEN [raised |-> "None", value |-> 0 - DecimalValue(DropFirst(s, 1))]
         ELSE [raised |-> "ValueError", value |-> 0]

WordChars == alphanums \cup {"_", "."}

\* no match of an accessor
NoAccessor == [end |-> NoMatch, token |-> StrToken(<<>>), raised |-> "None"]

KeyAccessorClose(s, open, word, close) ==
    IF close = NoMatch THEN NoAccessor
    ELSE [end |-> close, token |-> StrToken(SubSeq(s, open, word - 1)), raised |-> "None"]

KeyAccessorWord(s, open, word, quote) ==
    IF word = NoMatch THEN NoAccessor
    ELSE KeyAccessorClose(s, open, word, Literal(s, word, <<quote, "]">>))

KeyAccessorOpen(s, open, quote) ==
    IF open = NoMatch THEN NoAccessor
    ELSE KeyAccessorWord(s, open, Word(s, open, alphas, WordChars), quote)

\* Suppress(Literal('["')) + Word(alphas, alphanums + "_.") + Suppress(Literal('"]')),
\* for the quote character given: the end of the match and its token
KeyAccessor(s, loc, quote) == KeyAccessorOpen(s, Literal(s, loc, <<"[", quote>>), quote)

\* the parse action int(t[0]) is run on a match
IndexAccessorClose(close, n) ==
    IF close = NoMatch THEN NoAccessor
    ELSE [end |-> close, token |-> IntToken(n.value), raised |-> n.raised]

IndexAccessorWord(s, open, word) ==
    IF word = NoMatch THEN NoAccessor
    ELSE IndexAccessorClose(Literal(s, word, <<"]">>), int(SubSeq(s, open, word - 1)))

IndexAccessorOpen(s, open) ==
    IF open = NoMatch THEN NoAccessor
    ELSE IndexAccessorWord(s, open, Word(s, open, nums \cup {"-"}, nums \cup {"-"}))

\* Suppress(Literal("[")) + Word(nums + "-").setParseAction(int) + Suppress(Literal("]"))
IndexAccessor(s, loc) == IndexAccessorOpen(s, Literal(s, loc, <<"[">>))

\* a ^ b: the longest match (at most one of the three accessors matches at a
\* position)
Or(a, b) == IF a.end # NoMatch THEN a ELSE b

Accessor(s, loc) ==
    Or(KeyAccessor(s, loc, "\""), Or(KeyAccessor(s, loc, "'"), IndexAccessor(s, loc)))

\* the tokens of a match followed by the tokens of the rest
Prepend(token, rest) ==
    IF rest.raised = "None" THEN Returns(<<token>> \o rest.value) ELSE rest

\* ZeroOrMore(accessor) from position loc: the tokens matched, or the
\* exception of a parse action
RECURSIVE Accessors(_, _)
RECURSIVE AccessorsAfter(_, _)
AccessorsAfter(s, first) ==
    IF first.end = NoMatch THEN Returns(<<>>)
    ELSE IF first.raised # "None" THEN Raises(first.raised)
    ELSE Prepend(first.token, Accessors(s, first.end))

Accessors(s, loc) == AccessorsAfter(s, Accessor(s, loc))

PatternAfter(name, word) ==
    IF word = NoMatch THEN Raises("ParseException")
    ELSE Prepend(StrToken(SubSeq(name, 1, word - 1)), Accessors(name, word))

\* attribute_naming_pattern.parseString(name): the text after the last
\* match is not looked at
attribute_naming_pattern(name) == PatternAfter(name, Word(name, 1, alphas, WordChars))

\* except from: raise to
Reraise(result, from, to) == IF result.raised = from THEN Raises(to) ELSE result

_parse_attribute_naming_pattern(name) ==
    Reraise(attribute_naming_pattern(name), "ParseException", "ParameterAttributeNameParserError")

is_fully_qualified_parameter_name_literal_string_format(fully_qualified_parameter_name) ==
    startswith(fully_qualified_parameter_name,
               <<FULLY_QUALIFIED_PARAMETER_NAME_DELIMITER_CHARACTER>>)

\* a validation that accepts every name
accept_any_parameter_name(fully_qualified_parameter_name) == "None"

\* the exception validate_fully_qualified_parameter_name raises, or "None"
validate_fully_qualified_parameter_name(fully_qualified_parameter_name) ==
    IF is_fully_qualified_parameter_name_literal_string_format(fully_qualified_parameter_name)
    THEN "None"
    ELSE "ProfilerExecutionError"

\* ------------------------------------------------------------------------
\* Parameter values, ParameterNode trees and ParameterContainer
\* ------------------------------------------------------------------------

\* Python values: None, an integer, a list, a dict and a ParameterNode (a
\* dict subclass); the keys of a mapping are strings.
None == [none |-> TRUE]
Scalar(n) == [scalar |-> n]
List(items) == [list |-> items]
Dict(items) == [dict |-> items]
ParameterNode(items) == [node |-> items]

IsList(v) == "list" \in DOMAIN v
IsParameterNode(v) == "node" \in DOMAIN v
\* isinstance(v, dict)
IsDict(v) == "dict" \in DOMAIN v \/ IsParameterNode(v)

Items(v) == IF IsParameterNode(v) THEN v.node ELSE v.dict

\* key in mapping
Contains(v, key) == IsDict(v) /\ key \in DOMAIN Items(v)

\* mapping[key] = value
SetKey(v, key, value) ==
    LET items == [k \in DOMAIN Items(v) \cup {key} |-> IF k = key THEN value ELSE Items(v)[k]]
    IN  IF IsParameterNode(v) THEN ParameterNode(items) ELSE Dict(items)

\* an exception raised with a message that names a part of the name
RaisesNaming(e, parameter_name_part) == [raised |-> e, part |-> parameter_name_part]

\* obj[token]: a mapping raises KeyError for a key it lacks (an integer is
\* never a key here), a list raises IndexError for an index out of range and
\* TypeError for a string, None and an integer raise TypeError
GetItem(obj, token) ==
    IF IsDict(obj)
    THEN IF "str" \in DOMAIN token /\ token.str \in DOMAIN Items(obj)
         THEN Returns(Items(obj)[token.str])
         ELSE Raises("KeyError")
    ELSE IF IsList(obj)
    THEN IF "int" \notin DOMAIN token THEN Raises("TypeError")
         ELSE IF token.int >= 0 /\ token.int < Len(obj.list)
              THEN Returns(obj.list[token.int + 1])
              ELSE IF token.int < 0 /\ 0 - token.int <= Len(obj.list)
                   THEN Returns(obj.list[Len(obj.list) + token.int + 1])
                   ELSE Raises("IndexError")
    ELSE Raises("TypeError")

RECURSIVE convert_dictionaries_to_parameter_nodes(_)
convert_dictionaries_to_parameter_nodes(source) ==
    IF source = None THEN None
    ELSE IF IsDict(source)
    THEN ParameterNode([key \in DOMAIN Items(source) |->
                          convert_dictionaries_to_parameter_nodes(Items(source)[key])])
    ELSE IF IsList(source)
    THEN List([i \in 1..Len(source.list) |->
                 convert_dictionaries_to_parameter_nodes(source.list[i])])
    ELSE source

\* ParameterContainer(parameter_nodes): parameter_nodes is None or a dict
\* from the root of a name to the ParameterNode of the root
ParameterContainer(parameter_nodes) == [parameter_nodes |-> parameter_nodes]

set_parameter_node(self, parameter_name_root, parameter_node) ==
    LET parameter_nodes == IF self.parameter_nodes = None THEN Dict(<<>>)
                           ELSE self.parameter_nodes
    IN  ParameterContainer(SetKey(parameter_nodes, parameter_name_root, parameter_node))

get_parameter_node(self, parameter_name_root) ==
    IF self.parameter_nodes = None THEN None
    ELSE IF Contains(self.parameter_nodes, parameter_name_root)
         THEN convert_dictionaries_to_parameter_nodes(
                  Items(self.parameter_nodes)[parameter_name_root])
         ELSE None

\* a builder that makes a new node for every part but the last, whether
\* the node has the part or not
RECURSIVE _build_new_parameter_node_tree_for_one_parameter(_, _, _)
_build_new_parameter_node_tree_for_one_parameter(parameter_node, parameter_name_as_list, parameter_value) ==
    IF ~IsDict(parameter_node) THEN Raises("TypeError")
    ELSE IF Len(parameter_name_as_list) > 1
    THEN Returns(SetKey(parameter_node, parameter_name_as_list[1],
                        _build_new_parameter_node_tree_for_one_parameter(
                            ParameterNode(<<>>), Tail(parameter_name_as_list),
                            parameter_value).value))
    ELSE Returns(SetKey(parameter_node, parameter_name_as_list[1],
                        convert_dictionaries_to_parameter_nodes(parameter_value)))

\* The node after the call, or the exception: a part that exists and is not
\* a mapping cannot be descended into nor assigned to (TypeError), and then
\* nothing has been changed.  The part is the key as written: its bracket
\* accessors are not parsed.
RECURSIVE _build_parameter_node_tree_for_one_parameter(_, _, _)
_build_parameter_node_tree_for_one_parameter(parameter_node, parameter_name_as_list, parameter_value) ==
    LET parameter_name_part == parameter_name_as_list[1]
    IN  IF ~IsDict(parameter_node) THEN Raises("TypeError")
        ELSE IF Len(parameter_name_as_list) > 1
        THEN LET child == IF ~Contains(parameter_node, parameter_name_part)
                          THEN ParameterNode(<<>>)
                          ELSE Items(parameter_node)[parameter_name_part]
                 built == _build_parameter_node_tree_for_one_parameter(
                              child, Tail(parameter_name_as_list), parameter_value)
             IN  IF built.raised # "None" THEN built
                 ELSE Returns(SetKey(parameter_node, parameter_name_part, built.value))
        ELSE Returns(SetKey(parameter_node, parameter_name_part,
                             convert_dictionaries_to_parameter_nodes(parameter_value)))

\* build_parameter_container for one name and value of parameter_values: the
\* container after the call, or the exception (the container is then as it
\* was, but for a root node just created)
build_parameter_container(parameter_container, fully_qualified_parameter_name, parameter_value) ==
    LET fully_qualified_parameter_name_as_list ==
            split(DropFirst(fully_qualified_parameter_name, 1),
                  FULLY_QUALIFIED_PARAMETER_NAME_SEPARATOR_CHARACTER)
        parameter_name_root == fully_qualified_parameter_name_as_list[1]
        found == get_parameter_node(parameter_container, parameter_name_root)
        parameter_node == IF found = None THEN ParameterNode(<<>>) ELSE found
        built == _build_parameter_node_tree_for_one_parameter(
                     parameter_node, fully_qualified_parameter_name_as_list, parameter_value)
    IN  IF validate_fully_qualified_parameter_name(fully_qualified_parameter_name) # "None"
        THEN [raised |-> validate_fully_qualified_parameter_name(fully_qualified_parameter_name),
              value |-> parameter_container]
        ELSE IF built.raised # "None"
        THEN [raised |-> built.raised,
              value |-> set_parameter_node(parameter_container, parameter_name_root,
                                           parameter_node)]
        ELSE Returns(set_parameter_node(parameter_container, parameter_name_root, built.value))

\* The inner loop of _get_parameter_value_from_parameter_container over the
\* accessors of one part
RECURSIVE FollowAccessors(_, _)
RECURSIVE FollowItem(_, _)
FollowItem(item, accessors) ==
    IF item.raised # "None" THEN item ELSE FollowAccessors(item.value, accessors)

FollowAccessors(return_value, accessors) ==
    IF accessors = <<>> THEN Returns(return_value)
    ELSE FollowItem(GetItem(return_value, accessors[1]), Tail(accessors))

\* the end of one iteration: the value reached, with the node the part was
\* looked up in and the reference looked up
Reached(parent_parameter_node, attribute_value_reference, accessed) ==
    IF accessed.raised # "None" THEN accessed
    ELSE [raised |-> "None", value |-> accessed.value,
          parent_parameter_node |-> parent_parameter_node,
          attribute_value_reference |-> attribute_value_reference.str]

FollowReference(parent_parameter_node, attribute_value_reference, referenced, accessors) ==
    IF referenced.raised # "None" THEN referenced
    ELSE Reached(parent_parameter_node, attribute_value_reference,
                 FollowAccessors(referenced.value, accessors))

FollowParsed(return_value, parsed_attribute_name) ==
    IF parsed_attribute_name.raised # "None" THEN Raises(parsed_attribute_name.raised)
    ELSE IF Len(parsed_attribute_name.value) < 1 THEN Raises("KeyError")
    ELSE FollowReference(return_value, parsed_attribute_name.value[1],
                         GetItem(return_value, parsed_attribute_name.value[1]),
                         Tail(parsed_attribute_name.value))

\* One iteration of the loop over the parts: the value reached, or the
\* exception
FollowPart(return_value, parameter_name_part) ==
    FollowParsed(return_value, _parse_attribute_naming_pattern(parameter_name_part))

\* The loop over the parts, from the value reached so far: the last
\* iteration's outcome, or the exception with the part it was raised for
RECURSIVE FollowParts(_, _)
RECURSIVE FollowStep(_, _)
FollowStep(step, parameter_name_as_list) ==
    IF step.raised # "None" THEN RaisesNaming(step.raised, parameter_name_as_list[1])
    ELSE IF Len(parameter_name_as_list) = 1 THEN step
    ELSE FollowParts(step.value, Tail(parameter_name_as_list))

FollowParts(return_value, parameter_name_as_list) ==
    FollowStep(FollowPart(return_value, parameter_name_as_list[1]), parameter_name_as_list)

\* Only KeyError is caught, and raised again with a message that names the
\* part; any other exception leaves the function as it was raised.
Walked(walked, parameter_name_part) ==
    IF walked.raised = "KeyError" THEN walked
    ELSE IF walked.raised # "None" THEN Raises(walked.raised)
    ELSE IF ~Contains(walked.parent_parameter_node, walked.attribute_value_reference)
    THEN RaisesNaming("KeyError", parameter_name_part)
    ELSE Returns(walked.value)

WalkFrom(parameter_node, fully_qualified_parameter_name_as_list) ==
    IF parameter_node = None THEN Returns(None)
    ELSE Walked(FollowParts(parameter_node, fully_qualified_parameter_name_as_list),
                fully_qualified_parameter_name_as_list[
                    Len(fully_qualified_parameter_name_as_list)])

_get_parameter_value_from_parameter_container(fully_qualified_parameter_name, fully_qualified_parameter_name_as_list, parameter_container) ==
    WalkFrom(get_parameter_node(parameter_container,
                                fully_qualified_parameter_name_as_list[1]),
             fully_qualified_parameter_name_as_list)

\* A Domain: its id and its domain_kwargs (None or a dict)
Domain(id, domain_kwargs) == [id |-> id, domain_kwargs |-> domain_kwargs]

\* bool(v) of None and of a dict
Truthy(v) == v # None /\ (IsDict(v) => DOMAIN Items(v) # {})

\* dict.get(key)
Get(v, key) == IF Contains(v, key) THEN Items(v)[key] ELSE None

\* a reader that resolves every name against the container of the domain
get_parameter_value_from_the_container_of_the_domain(fully_qualified_parameter_name, domain, variables, parameters) ==
    IF domain = None \/ parameters = None THEN Raises("AttributeError")
    ELSE _get_parameter_value_from_parameter_container(
             DropFirst(fully_qualified_parameter_name, 1),
             split(DropFirst(fully_qualified_parameter_name, 1),
                   FULLY_QUALIFIED_PARAMETER_NAME_SEPARATOR_CHARACTER),
             Items(parameters)[domain.id])

\* variables is a ParameterContainer or None, parameters a dict from the id
\* of a domain to its ParameterContainer, or None
get_parameter_value_by_fully_qualified_parameter_name(fully_qualified_parameter_name, domain, variables, parameters) ==
    LET name == DropFirst(fully_qualified_parameter_name, 1)
        parameter_container == IF startswith(fully_qualified_parameter_name, VARIABLES_PREFIX)
                               THEN variables
                               ELSE Items(parameters)[domain.id]
    IN  IF validate_fully_qualified_parameter_name(fully_qualified_parameter_name) # "None"
        THEN Raises(validate_fully_qualified_parameter_name(fully_qualified_parameter_name))
        ELSE IF fully_qualified_parameter_name = DOMAIN_KWARGS_PARAMETER_FULLY_QUALIFIED_NAME
        THEN IF domain # None THEN Returns(domain.domain_kwargs) ELSE Returns(None)
        ELSE IF startswith(fully_qualified_parameter_name,
                           DOMAIN_KWARGS_PARAMETER_FULLY_QUALIFIED_NAME)
        THEN IF domain # None /\ Truthy(domain.domain_kwargs)
             THEN Returns(Get(domain.domain_kwargs,
                              DropFirst(fully_qualified_parameter_name,
                                        Len(DOMAIN_KWARGS_PARAMETER_FULLY_QUALIFIED_NAME) + 1)))
             ELSE Returns(None)
        ELSE IF ~startswith(fully_qualified_parameter_name, VARIABLES_PREFIX) /\ domain = None
        THEN Raises("AttributeError")
        ELSE IF ~startswith(fully_qualified_parameter_name, VARIABLES_PREFIX)
                /\ parameters = None
        THEN Raises("TypeError")
        ELSE IF ~startswith(fully_qualified_parameter_name, VARIABLES_PREFIX)
                /\ ~Contains(parameters, domain.id)
        THEN Raises("KeyError")
        ELSE IF parameter_container = None THEN Raises("AttributeError")
        ELSE _get_parameter_value_from_parameter_container(
                 name, split(name, FULLY_QUALIFIED_PARAMETER_NAME_SEPARATOR_CHARACTER),
                 parameter_container)

\* ------------------------------------------------------------------------
\* Listing the fully-qualified parameter names
\* ------------------------------------------------------------------------

FULLY_QUALIFIED_PARAMETER_NAME_VALUE_KEY == <<"v", "a", "l", "u", "e">>
FULLY_QUALIFIED_PARAMETER_NAME_ATTRIBUTED_VALUE_KEY == <<"a", "t", "t", "r", "i", "b", "u", "t", "e", "d", "_", "v", "a", "l", "u", "e">>
FULLY_QUALIFIED_PARAMETER_NAME_METADATA_KEY == <<"d", "e", "t", "a", "i", "l", "s">>
RESERVED_TERMINAL_LITERALS ==
    {FULLY_QUALIFIED_PARAMETER_NAME_VALUE_KEY,
     FULLY_QUALIFIED_PARAMETER_NAME_ATTRIBUTED_VALUE_KEY,
     FULLY_QUALIFIED_PARAMETER_NAME_METADATA_KEY}

\* RESERVED_TERMINAL_LITERALS is a set of strings: the order in which a
\* loop goes through it follows the hashes of the strings, which differ
\* from one interpreter run to another.  An iteration order is any
\* arrangement of the literals.
IterationOrders ==
    {order \in [1..Cardinality(RESERVED_TERMINAL_LITERALS) -> RESERVED_TERMINAL_LITERALS] :
        \A i, j \in DOMAIN order : i # j => order[i] # order[j]}

Elements(list) == {list[i] : i \in 1..Len(list)}

\* list.index(key), counted from 1
index(list, key) ==
    CHOOSE i \in 1..Len(list) : list[i] = key /\ \A j \in 1..(i - 1) : list[j] # key

\* the first key of the loop over RESERVED_TERMINAL_LITERALS that the list holds
FirstKeyFound(list, order) ==
    order[CHOOSE i \in DOMAIN order :
            order[i] \in Elements(list) /\ \A j \in 1..(i - 1) : order[j] \notin Elements(list)]

\* a cut that treats the root of the variables as any other root
cut_at_reserved_literal_under_any_root(attribute_name_as_list, order) ==
    IF Elements(attribute_name_as_list) \cap RESERVED_TERMINAL_LITERALS = {}
    THEN attribute_name_as_list
    ELSE SubSeq(attribute_name_as_list, 1,
                index(attribute_name_as_list,
                      FirstKeyFound(attribute_name_as_list, order)) - 1)

\* the slice attribute_name_as_list[:idx] leaves out the literal at idx
_get_parameter_name_parts_up_to_including_reserved_literal(attribute_name_as_list, order) ==
    IF attribute_name_as_list[1] = PARAMETER_NAME_ROOT_FOR_VARIABLES
    THEN <<PARAMETER_NAME_ROOT_FOR_VARIABLES, PARAMETER_NAME_ROOT_FOR_VARIABLES>>
    ELSE IF Elements(attribute_name_as_list) \cap RESERVED_TERMINAL_LITERALS = {}
    THEN attribute_name_as_list
    ELSE SubSeq(attribute_name_as_list, 1,
                index(attribute_name_as_list,
                      FirstKeyFound(attribute_name_as_list, order)) - 1)

\* the lists appended to attribute_names_as_lists: one for every item of the
\* tree that is not a ParameterNode (parameter_name_root_as_list is never
\* None: both callers name a root)
RECURSIVE _get_parameter_node_attribute_names_as_lists(_, _)
_get_parameter_node_attribute_names_as_lists(parameter_name_root_as_list, parameter_node) ==
    IF parameter_node = None THEN {}
    ELSE UNION {IF IsParameterNode(Items(parameter_node)[attribute_name_part])
                THEN _get_parameter_node_attribute_names_as_lists(
                         Append(parameter_name_root_as_list, attribute_name_part),
                         Items(parameter_node)[attribute_name_part])
                ELSE {Append(parameter_name_root_as_list, attribute_name_part)} :
                    attribute_name_part \in DOMAIN Items(parameter_node)}

\* separator.join(parts)
RECURSIVE join(_, _)
join(parts, separator) ==
    IF parts = <<>> THEN <<>>
    ELSE IF Len(parts) = 1 THEN parts[1]
    ELSE parts[1] \o <<separator>> \o join(Tail(parts), separator)

\* "$" + ".".join(attribute_name_as_list[1:])
AttributeName(attribute_name_as_list) ==
    <<FULLY_QUALIFIED_PARAMETER_NAME_DELIMITER_CHARACTER>>
        \o join(Tail(attribute_name_as_list), FULLY_QUALIFIED_PARAMETER_NAME_SEPARATOR_CHARACTER)

\* the set attribute_names
_get_parameter_node_attribute_names(parameter_name_root, parameter_node, order) ==
    {AttributeName(_get_parameter_name_parts_up_to_including_reserved_literal(
                       attribute_name_as_list, order)) :
        attribute_name_as_list \in
            _get_parameter_node_attribute_names_as_lists(<<parameter_name_root>>,
                                                         parameter_node)}

\* list(a set): its members, each once, in some order
RECURSIVE list(_)
list(set) ==
    IF set = {} THEN <<>>
    ELSE <<CHOOSE member \in set : TRUE>> \o list(set \ {CHOOSE member \in set : TRUE})

\* the characters of the names in the order of their code points
CodePoints ==
    <<"\"", "$", "'", "-", ".",
      "0", "1", "2", "3", "4", "5", "6", "7", "8", "9",
      "A", "B", "C", "D", "E", "F", "G", "H", "I", "J", "K", "L", "M", "N", "O", "P", "Q",
      "R", "S", "T", "U", "V", "W", "X", "Y", "Z", "[", "]", "_",
      "a", "b", "c", "d", "e", "f", "g", "h", "i", "j", "k", "l", "m", "n", "o", "p", "q",
      "r", "s", "t", "u", "v", "w", "x", "y", "z">>
ord(c) == CHOOSE i \in 1..Len(CodePoints) : CodePoints[i] = c

\* a < b of two strings
RECURSIVE StrLess(_, _)
StrLess(a, b) ==
    IF b = <<>> THEN FALSE
    ELSE IF a = <<>> THEN TRUE
    ELSE IF a[1] = b[1] THEN StrLess(Tail(a), Tail(b))
    ELSE ord(a[1]) < ord(b[1])

\* sorted(names, reverse=True)
sorted_reverse(names) == SortSeq(names, LAMBDA a, b : StrLess(b, a))

\* the names of the roots of the container of the domain, root after root
RECURSIVE NamesOfRoots(_, _, _)
NamesOfRoots(parameter_nodes, roots, order) ==
    IF roots = {} THEN <<>>
    ELSE list(_get_parameter_node_attribute_names(
                  PARAMETER_NAME_ROOT_FOR_PARAMETERS,
                  Items(parameter_nodes)[CHOOSE root \in roots : TRUE], order))
            \o NamesOfRoots(parameter_nodes, roots \ {CHOOSE root \in roots : TRUE}, order)

\* the names extended from the variables
NamesOfVariables(variables, order) ==
    IF variables = None THEN <<>>
    ELSE IF variables.parameter_nodes = None THEN <<>>
    ELSE list(_get_parameter_node_attribute_names(
                  PARAMETER_NAME_ROOT_FOR_VARIABLES,
                  Items(variables.parameter_nodes)[PARAMETER_NAME_ROOT_FOR_VARIABLES], order))

\* the names extended from the container of the domain
NamesOfParameters(parameter_container, order) ==
    IF parameter_container = None THEN <<>>
    ELSE IF parameter_container.parameter_nodes = None THEN <<>>
    ELSE NamesOfRoots(parameter_container.parameter_nodes,
                      DOMAIN Items(parameter_container.parameter_nodes), order)

\* the sorted list of the names, or the exception: the variables must have
\* the root "variables" (KeyError), and with parameters there must be a
\* domain (AttributeError) whose id is in the parameters (KeyError)
get_fully_qualified_parameter_names(domain, variables, parameters, order) ==
    IF variables # None /\ variables.parameter_nodes # None
          /\ ~Contains(variables.parameter_nodes, PARAMETER_NAME_ROOT_FOR_VARIABLES)
    THEN Raises("KeyError")
    ELSE IF parameters = None THEN Returns(sorted_reverse(NamesOfVariables(variables, order)))
    ELSE IF domain = None THEN Raises("AttributeError")
    ELSE IF ~Contains(parameters, domain.id) THEN Raises("KeyError")
    ELSE Returns(sorted_reverse(NamesOfVariables(variables, order)
                                   \o NamesOfParameters(Items(parameters)[domain.id], order)))

\* the value of the i-th name, or the exception
ValueOfName(names, i, domain, variables, parameters) ==
    get_parameter_value_by_fully_qualified_parameter_name(names[i], domain, variables,
                                                          parameters)

\* the dict comprehension over the names: the exception of the first name
\* that raises, or the dict from each name to its value
ValuesOfNames(names, domain, variables, parameters) ==
    IF \E i \in 1..Len(names) :
          ValueOfName(names, i, domain, variables, parameters).raised # "None"
    THEN ValueOfName(names,
                     CHOOSE i \in 1..Len(names) :
                        /\ ValueOfName(names, i, domain, variables, parameters).raised # "None"
                        /\ \A j \in 1..(i - 1) :
                              ValueOfName(names, j, domain, variables, parameters).raised = "None",
                     domain, variables, parameters)
    ELSE Returns(Dict([name \in Elements(names) |->
                         get_parameter_value_by_fully_qualified_parameter_name(
                             name, domain, variables, parameters).value]))

NamesOrValues(listing, domain, variables, parameters) ==
    IF listing.raised # "None" THEN listing
    ELSE ValuesOfNames(listing.value, domain, variables, parameters)

get_parameter_values_for_fully_qualified_parameter_names(domain, variables, parameters, order) ==
    NamesOrValues(get_fully_qualified_parameter_names(domain, variables, parameters, order),
                  domain, variables, parameters)

\* ------------------------------------------------------------------------
\* State
\* ------------------------------------------------------------------------

VARIABLES
    registry,          \* the metric registry: (name, engine) -> provider
    registered,        \* number of members registered
    execution_engine,  \* the engine of the run
    path,              \* the requested metric and the dependencies followed from it
    dependencies,      \* the dependency mapping of the last metric of path
    closure,           \* every dependency generated since the request
    invocation,        \* the adapter or provider called and its arguments
    outcome,           \* how the invocation ended
    requests,          \* the metrics requested of the run
    graph,             \* the metrics the run resolves, each with its dependencies
    nresolvers,        \* the number of resolvers of the run
    assigned,          \* per resolver, the metrics it resolves
    resolved,          \* the resolution cache: the metrics resolved
    computing,         \* per resolver, the metric whose provider it runs
    provider_metrics,  \* per resolver, the metrics argument of that provider
    calls,             \* per metric, the number of invocations of its provider
    writes             \* per metric, the number of writes of its cache entry

depVars == <<registry, registered, execution_engine, path, dependencies, closure>>
provVars == <<invocation, outcome>>
runVars == <<requests, graph, nresolvers, assigned, resolved, computing, provider_metrics,
             calls, writes>>

VARIABLES
    batch,                 \* the partial called on the batch and its arguments
    unexpected_condition,  \* the condition metric the partial returned
    realized               \* the realization metric last computed from it

dataVars == <<batch, unexpected_condition, realized>>

NoBatch == [partial |-> "none"]
NoCondition == [kind |-> "none"]
NoRealization == [metric |-> "none"]

DataIdle ==
    /\ batch = NoBatch
    /\ unexpected_condition = NoCondition
    /\ realized = NoRealization

VARIABLES
    variables,             \* the ParameterContainer of the variables
    parameters,            \* per domain id, the ParameterContainer of its parameters
    written,               \* the build_parameter_container calls made, in order
    lookup,                \* the last name read since the last write, and the result
    listed,                \* the names and values listed since the last write
    parsed                 \* the last part of a name parsed, and the result

paramVars == <<variables, parameters, written, lookup, listed, parsed>>

DomainIds == {"d1", "d2"}
NoLookup == [name |-> <<>>]
NoListing == [order |-> <<>>]
NoParse == [result |-> <<>>]

ParamIdle ==
    /\ variables = ParameterContainer(None)
    /\ parameters = Dict([id \in DomainIds |-> ParameterContainer(None)])
    /\ written = <<>>
    /\ lookup = NoLookup
    /\ listed = NoListing
    /\ parsed = NoParse

vars == <<depVars, provVars, runVars, dataVars, paramVars>>

NoRegistry == <<>>

DepInit ==
    /\ registry = NoRegistry
    /\ registered = 0
    /\ execution_engine \in Engines
    /\ path = <<>>
    /\ dependencies = NoDependencies
    /\ closure = {}

NoInvocation == [kind |-> "none"]

ProvIdle ==
    /\ invocation = NoInvocation
    /\ outcome = Return

Resolvers == 1..MaxResolvers

RunIdle ==
    /\ requests = <<>>
    /\ graph = <<>>
    /\ nresolvers = 1
    /\ assigned = [w \in Resolvers |-> {}]
    /\ resolved = <<>>
    /\ computing = [w \in Resolvers |-> NoMetric]
    /\ provider_metrics = [w \in Resolvers |-> <<>>]
    /\ calls = <<>>
    /\ writes = <<>>

\* one decorated member is registered (at class definition, before any request)
RegisterMetricFunctions(m) ==
    /\ path = <<>>
    /\ registered < MaxRegistered
    /\ ~RegistrationRaises(m)
    /\ registry' = RegisterMember(registry, m)
    /\ registered' = registered + 1
    /\ UNCHANGED <<execution_engine, path, dependencies, closure>>
    /\ UNCHANGED <<provVars, runVars, dataVars, paramVars>>

\* a metric is requested of its provider class (one request per run)
RequestMetric(c, n, dk, vk) ==
    LET metric == MetricConfiguration(n, dk, vk)
    IN /\ path = <<>>
       /\ path' = << [metric |-> metric, cls |-> c.name] >>
       /\ dependencies' =
            GetEvaluationDependencies(c.name, metric, execution_engine, registry)
       /\ closure' = Range(dependencies')
       /\ UNCHANGED <<registry, registered, execution_engine>>
       /\ UNCHANGED <<provVars, runVars, dataVars, paramVars>>

\* the resolver follows one dependency to the class registered for it
FollowDependency(role) ==
    LET metric == dependencies[role]
        key == <<metric.metric_name, execution_engine>>
    IN /\ path # <<>>
       /\ role \in DOMAIN dependencies
       /\ key \in DOMAIN registry
       /\ path' = Append(path, [metric |-> metric, cls |-> registry[key].metric_class])
       /\ dependencies' =
            GetEvaluationDependencies(registry[key].metric_class, metric,
                                      execution_engine, registry)
       /\ closure' = closure \cup Range(dependencies')
       /\ UNCHANGED <<registry, registered, execution_engine>>
       /\ UNCHANGED <<provVars, runVars, dataVars, paramVars>>

Roles ==
    {"metric_partial_fn", "unexpected_condition", "metric_map_fn",
     "table.column_types", "table.columns", "table.row_count"}

DepNext ==
    \/ \E m \in Members : RegisterMetricFunctions(m)
    \/ \E c \in ProviderClasses : \E n \in RequestNames(c) :
         \E kw \in RequestKwargs(c) : RequestMetric(c, n, kw[1], kw[2])
    \/ \E role \in Roles : FollowDependency(role)

Init == DepInit /\ ProvIdle /\ RunIdle /\ DataIdle /\ ParamIdle

Spec == Init /\ [][DepNext]_vars

\* ------------------------------------------------------------------------
\* Invocations of the partial adapters and of the realization providers
\* ------------------------------------------------------------------------

\* the accessor keys the inner_func of a decorator subscripts
DecoratorAccessorKeys(decorator) ==
    CASE decorator \in {"column_function_partial", "column_condition_partial"} ->
            {"column"}
      [] decorator \in {"column_pair_function_partial",
                        "column_pair_condition_partial"} -> {"column_A", "column_B"}
      [] OTHER -> {"column_list"}

\* the inner_func of a decorated member is called by the engine of the run
InvokePartial(decorator, accessor_domain_kwargs, table_columns) ==
    /\ invocation = NoInvocation
    /\ DecoratorAccessorKeys(decorator) \subseteq DOMAIN accessor_domain_kwargs
    /\ invocation' = [kind |-> "partial", name |-> decorator,
                      engine |-> execution_engine,
                      accessor_domain_kwargs |-> accessor_domain_kwargs,
                      table_columns |-> table_columns,
                      operational_error |-> FALSE]
    /\ outcome' = PartialOutcome(decorator, accessor_domain_kwargs, table_columns)
    /\ UNCHANGED <<depVars, runVars, dataVars, paramVars>>

\* a realization provider is called
InvokeProvider(provider, accessor_domain_kwargs, table_columns, operational_error) ==
    /\ invocation = NoInvocation
    /\ invocation' = [kind |-> "provider", name |-> provider,
                      engine |-> execution_engine,
                      accessor_domain_kwargs |-> accessor_domain_kwargs,
                      table_columns |-> table_columns,
                      operational_error |-> operational_error]
    /\ outcome' = ProviderOutcome(provider, accessor_domain_kwargs, table_columns,
                                  operational_error)
    /\ UNCHANGED <<depVars, runVars, dataVars, paramVars>>

ProvNext ==
    \/ \E d \in PartialDecorators : \E adk \in AccessorKwargsSamples :
         \E cols \in TableColumnsSamples : InvokePartial(d, adk, cols)
    \/ \E p \in RealizationProviders : \E adk \in AccessorKwargsSamples :
         \E cols \in TableColumnsSamples : \E oe \in BOOLEAN :
            InvokeProvider(p, adk, cols, oe)

SpecProviders == Init /\ [][ProvNext]_vars

\* ------------------------------------------------------------------------
\* A validation run: the requested metrics and their dependencies are
\* resolved into the cache, dependencies first
\* ------------------------------------------------------------------------

\* the member registered before a run, for the engine of the run
RunRegistrable(m) ==
    /\ requests = <<>>
    /\ m.engine = execution_engine
    /\ registered = 0

\* the metrics a metric transitively requires, by the edges of the graph
RECURSIVE Reachable(_, _)
Reachable(g, metrics) ==
    LET more == metrics \cup UNION { Range(g[m]) : m \in metrics }
    IN IF more = metrics THEN metrics ELSE Reachable(g, more)

\* two metrics are requested of the run, which k resolvers will resolve:
\* the graph holds every metric required and its dependencies; a resolver
\* that is alone resolves them all; concurrent resolvers are given
\* independent siblings, each one requested metric and what it requires
StartRun(n1, n2, dk, vk, k) ==
    LET requested == << MetricConfiguration(n1, dk, vk), MetricConfiguration(n2, dk, vk) >>
        nodes == ExpandDependencies(registry, Range(requested), execution_engine)
        g == [m \in nodes |-> DependenciesOf(registry, m, execution_engine)]
    IN /\ requests = <<>>
       /\ path = <<>>
       /\ k > 1 => n1 # n2
       /\ requests' = requested
       /\ graph' = g
       /\ nresolvers' = k
       /\ assigned' = [w \in Resolvers |->
                         IF k = 1 THEN nodes
                         ELSE IF w <= Len(requested)
                              THEN Reachable(g, {requested[w]})
                              ELSE {}]
       /\ resolved' = <<>>
       /\ computing' = [w \in Resolvers |-> NoMetric]
       /\ provider_metrics' = [w \in Resolvers |-> <<>>]
       /\ calls' = [m \in nodes |-> 0]
       /\ writes' = [m \in nodes |-> 0]
       /\ UNCHANGED <<depVars, provVars, dataVars, paramVars>>

\* a metric is ready: not in the cache, its dependencies all in the cache
Ready(metric) ==
    /\ metric \notin DOMAIN resolved
    /\ Range(graph[metric]) \subseteq DOMAIN resolved

\* a resolver finds a metric ready and invokes its provider with the
\* resolved dependencies
InvokeMetricProvider(w, metric) ==
    LET deps == graph[metric]
    IN /\ w <= nresolvers
       /\ computing[w] = NoMetric
       /\ metric \in assigned[w]
       /\ Ready(metric)
       /\ computing' = [computing EXCEPT ![w] = metric]
       /\ provider_metrics' =
            [provider_metrics EXCEPT ![w] =
                [role \in { r \in DOMAIN deps : deps[r] \in DOMAIN resolved }
                    |-> resolved[deps[role]]]]
       /\ calls' = [calls EXCEPT ![metric] = @ + 1]
       /\ UNCHANGED <<requests, graph, nresolvers, assigned, resolved, writes>>
       /\ UNCHANGED <<depVars, provVars, dataVars, paramVars>>

\* mutant: the value is written whatever the cache holds
CacheWriteOverwrite(cache, metric, w) == (metric :> [computed_by |-> w]) @@ cache

\* the value a resolver computed is written unless the cache holds the key
CacheWrite(cache, metric, w) ==
    IF metric \in DOMAIN cache THEN cache
    ELSE (metric :> [computed_by |-> w]) @@ cache

\* the provider returns and the resolver hands its value to the cache
StoreMetric(w) ==
    LET metric == computing[w]
    IN /\ metric # NoMetric
       /\ resolved' = CacheWrite(resolved, metric, w)
       /\ writes' = [writes EXCEPT
                       ![metric] = IF resolved' = resolved THEN @ ELSE @ + 1]
       /\ computing' = [computing EXCEPT ![w] = NoMetric]
       /\ provider_metrics' = [provider_metrics EXCEPT ![w] = <<>>]
       /\ UNCHANGED <<requests, graph, nresolvers, assigned, calls>>
       /\ UNCHANGED <<depVars, provVars, dataVars, paramVars>>

RunNext ==
    \/ \E m \in Members : RunRegistrable(m) /\ RegisterMetricFunctions(m)
    \/ \E n1 \in RegisteredNames(registry, execution_engine) :
         LET cname == registry[<<n1, execution_engine>>].metric_class
         IN \E n2 \in {n1} \cup
                      { n \in RegisteredNames(registry, execution_engine) :
                          /\ registry[<<n, execution_engine>>].metric_class = cname
                          /\ n[Len(n)] = "unexpected_rows" } :
              \E kw \in RunKwargs(ClassNamed(cname)) : \E k \in Resolvers :
                 StartRun(n1, n2, kw[1], kw[2], k)
    \/ \E w \in Resolvers : \E metric \in DOMAIN graph : InvokeMetricProvider(w, metric)
    \/ \E w \in Resolvers : StoreMetric(w)

SpecRun == Init /\ [][RunNext]_vars

\* ------------------------------------------------------------------------
\* Evaluation of a column map metric on a batch
\* ------------------------------------------------------------------------

Dialects == {"sqlite", "bigquery"}
DialectsOf(engine) == IF engine = "SqlAlchemyExecutionEngine" THEN Dialects ELSE {"none"}

\* the partial function types sampled: the sqlalchemy partial does not read its type
ConditionFnTypesOf(engine) == IF engine = "SparkDFExecutionEngine" THEN {"MAP_CONDITION_FN", "WINDOW_CONDITION_FN"} ELSE IF engine = "SqlAlchemyExecutionEngine" THEN {"MAP_CONDITION_FN"} ELSE {"MAP_CONDITION_SERIES"}
ConditionFnsOf(engine) == IF engine = "PandasExecutionEngine" THEN SeriesConditionFns ELSE ConditionFns

\* a column condition partial is evaluated on a batch
ColumnConditionPartial(engine, dialect, partial_fn_type, table, metric_fn, kwargs, cls) ==
    /\ batch = NoBatch
    /\ engine = execution_engine
    /\ batch' = [partial |-> "column_condition_partial", execution_engine |-> engine,
                 dialect |-> dialect, partial_fn_type |-> partial_fn_type, table |-> table,
                 metric_fn |-> metric_fn, kwargs |-> kwargs, cls |-> cls]
    /\ unexpected_condition' =
          CASE engine = "PandasExecutionEngine" ->
                  [kind |-> "mask",
                   mask |-> PandasColumnCondition(DataFrame(table), metric_fn, kwargs, cls)]
            [] engine = "SqlAlchemyExecutionEngine" ->
                  [kind |-> "predicate",
                   predicate |-> SqlAlchemyColumnCondition(metric_fn, kwargs, cls),
                   null_row_condition |-> FALSE]
            [] OTHER ->
                  [kind |-> "predicate",
                   predicate |-> SparkColumnCondition(metric_fn, kwargs, cls, partial_fn_type),
                   null_row_condition |->
                       AddsColumnRowCondition(engine, partial_fn_type, kwargs, cls)]
    /\ realized' = NoRealization
    /\ UNCHANGED <<depVars, provVars, runVars, paramVars>>

\* a column pair condition partial is evaluated on a batch
ColumnPairConditionPartial(engine, metric_fn, kwargs, cls) ==
    /\ batch = NoBatch
    /\ engine = execution_engine
    /\ batch' = [partial |-> "column_pair_condition_partial", execution_engine |-> engine,
                 metric_fn |-> metric_fn, kwargs |-> kwargs, cls |-> cls]
    /\ unexpected_condition' = [kind |-> "pair_predicate", predicate |-> ColumnPairCondition(metric_fn)]
    /\ realized' = NoRealization
    /\ UNCHANGED <<depVars, provVars, runVars, paramVars>>

\* a column function partial is evaluated on a batch
ColumnFunctionPartial(engine, table, metric_fn, kwargs, cls) ==
    /\ batch = NoBatch
    /\ engine = execution_engine
    /\ batch' = [partial |-> "column_function_partial", execution_engine |-> engine,
                 dialect |-> "none", partial_fn_type |-> "MAP_FN", table |-> table,
                 metric_fn |-> metric_fn, kwargs |-> kwargs, cls |-> cls]
    /\ unexpected_condition' = NoCondition
    /\ realized' =
          [metric |-> "map_fn",
           result |-> IF engine = "PandasExecutionEngine"
                      THEN Returns(PandasColumnFunction(DataFrame(table), metric_fn, kwargs, cls))
                      ELSE Returns(QueryColumnFunction(table, metric_fn, kwargs, cls))]
    /\ UNCHANGED <<depVars, provVars, runVars, paramVars>>

Masked == unexpected_condition.kind = "mask"
Records(order) == Scan(DomainRecords(batch.table, unexpected_condition.null_row_condition), order)

CountRealizations == {"unexpected_count", "unexpected_count.aggregate_fn"}

\* the result of unexpected_count, or of the aggregate the engine evaluates for
\* unexpected_count.aggregate_fn
UnexpectedCountResult(realization) ==
    CASE batch.execution_engine = "PandasExecutionEngine" ->
            pandas_map_condition_unexpected_count(unexpected_condition.mask)
      [] batch.execution_engine = "SqlAlchemyExecutionEngine" ->
            IF realization = "unexpected_count"
            THEN sqlalchemy_map_condition_unexpected_count_value(
                     Records("forward"), unexpected_condition.predicate)
            ELSE sqlalchemy_map_condition_unexpected_count_aggregate_fn(
                     Records("forward"), unexpected_condition.predicate)
      [] OTHER ->
            IF realization = "unexpected_count"
            THEN spark_map_condition_unexpected_count_value(
                     Records("forward"), unexpected_condition.predicate)
            ELSE spark_map_condition_unexpected_count_aggregate_fn(
                     Records("forward"), unexpected_condition.predicate)

\* unexpected_count is computed from the condition
MapConditionUnexpectedCountOnData(realization) ==
    /\ batch.partial = "column_condition_partial"
    /\ realized = NoRealization
    /\ realization = "unexpected_count.aggregate_fn" => batch.execution_engine # "PandasExecutionEngine"
    /\ realized' = [metric |-> realization, result |-> UnexpectedCountResult(realization)]
    /\ UNCHANGED <<batch, unexpected_condition>>
    /\ UNCHANGED <<depVars, provVars, runVars, paramVars>>

DetailMetrics == {"unexpected_values", "unexpected_index_list", "unexpected_rows"}

\* the result of a detail metric for a result format; a database returns the rows in
\* the order of its choice
DetailResult(metric, result_format, order) ==
    CASE batch.execution_engine = "PandasExecutionEngine" ->
            ( CASE metric = "unexpected_values" ->
                      pandas_column_map_condition_values(
                          batch.cls, DataFrame(batch.table), unexpected_condition.mask, result_format)
                [] metric = "unexpected_index_list" ->
                      pandas_map_condition_index(
                          batch.cls, DataFrame(batch.table), unexpected_condition.mask, result_format)
                [] OTHER ->
                      pandas_map_condition_rows(
                          batch.cls, DataFrame(batch.table), unexpected_condition.mask, result_format) )
      [] batch.execution_engine = "SqlAlchemyExecutionEngine" ->
            IF metric = "unexpected_values"
            THEN sqlalchemy_column_map_condition_values(
                     batch.dialect, Records(order), unexpected_condition.predicate, result_format)
            ELSE sqlalchemy_map_condition_rows(
                     Records(order), unexpected_condition.predicate, result_format)
      [] OTHER ->
            IF metric = "unexpected_values"
            THEN spark_column_map_condition_values(
                     Records("forward"), unexpected_condition.predicate, result_format)
            ELSE spark_map_condition_rows(
                     Records("forward"), unexpected_condition.predicate, result_format)

\* a detail metric is computed from the condition
MapConditionDetail(metric, result_format, order) ==
    /\ batch.partial = "column_condition_partial"
    /\ realized = NoRealization
    /\ metric = "unexpected_index_list" => batch.execution_engine = "PandasExecutionEngine"
    /\ realized' = [metric |-> metric, result_format |-> result_format,
                    result |-> DetailResult(metric, result_format, order)]
    /\ UNCHANGED <<batch, unexpected_condition>>
    /\ UNCHANGED <<depVars, provVars, runVars, paramVars>>

ValueCountsResult(result_format, direct_fails, fallback_fails) ==
    CASE batch.execution_engine = "PandasExecutionEngine" ->
            pandas_column_map_condition_value_counts(
                batch.cls, DataFrame(batch.table), unexpected_condition.mask, result_format,
                direct_fails, fallback_fails)
      [] batch.execution_engine = "SqlAlchemyExecutionEngine" ->
            sqlalchemy_column_map_condition_value_counts(
                Records("forward"), unexpected_condition.predicate, result_format)
      [] OTHER ->
            spark_column_map_condition_value_counts(
                Records("forward"), unexpected_condition.predicate, result_format)

\* unexpected_value_counts is computed from the condition
ColumnMapConditionValueCountsOnData(result_format, direct_fails, fallback_fails) ==
    /\ batch.partial = "column_condition_partial"
    /\ realized = NoRealization
    /\ batch.execution_engine # "PandasExecutionEngine" => ~direct_fails /\ ~fallback_fails
    /\ realized' = [metric |-> "unexpected_value_counts", result_format |-> result_format,
                    direct_fails |-> direct_fails, fallback_fails |-> fallback_fails,
                    result |-> ValueCountsResult(result_format, direct_fails, fallback_fails)]
    /\ UNCHANGED <<batch, unexpected_condition>>
    /\ UNCHANGED <<depVars, provVars, runVars, paramVars>>

Unloaded == batch = NoBatch
Unrealized == batch.partial = "column_condition_partial" /\ realized = NoRealization

DataNext ==
    \/ Unloaded /\ \E engine \in {execution_engine} : \E dialect \in DialectsOf(engine) :
         \E partial_fn_type \in ConditionFnTypesOf(engine) : \E table \in SmallTables :
           \E metric_fn \in ConditionFnsOf(engine) :
             \E kwargs \in DecoratorKwargs : \E cls \in ClassAttributes :
               ColumnConditionPartial(engine, dialect, partial_fn_type, table, metric_fn, kwargs, cls)
    \/ Unloaded /\ \E metric_fn \in LargeTableFns :
         ColumnConditionPartial("SqlAlchemyExecutionEngine", "bigquery", "MAP_CONDITION_FN",
                                LargeTable, metric_fn, <<>>, <<>>)
    \/ Unloaded /\ \E engine \in {execution_engine} : \E metric_fn \in PairConditionFns :
         \E kwargs \in DecoratorKwargs : \E cls \in ClassAttributes :
           ColumnPairConditionPartial(engine, metric_fn, kwargs, cls)
    \/ Unloaded /\ \E engine \in {execution_engine} : \E table \in SmallTables :
         \E metric_fn \in MapFns : \E kwargs \in DecoratorKwargs : \E cls \in ClassAttributes :
           ColumnFunctionPartial(engine, table, metric_fn, kwargs, cls)
    \/ Unrealized /\ \E realization \in CountRealizations :
         MapConditionUnexpectedCountOnData(realization)
    \/ Unrealized /\ \E metric \in DetailMetrics : \E result_format \in ResultFormatSamples :
         \E order \in ScanOrders : MapConditionDetail(metric, result_format, order)
    \/ Unrealized /\ \E result_format \in ResultFormatSamples :
         \E direct_fails, fallback_fails \in BOOLEAN :
           ColumnMapConditionValueCountsOnData(result_format, direct_fails, fallback_fails)

SpecData == Init /\ [][DataNext]_vars

\* ------------------------------------------------------------------------
\* Writing and reading fully-qualified parameter names
\* ------------------------------------------------------------------------

\* .a.value, the path of the value of a parameter
ValuePath == <<".", "a", ".">> \o FULLY_QUALIFIED_PARAMETER_NAME_VALUE_KEY

\* the paths written under a root: .a, .a.b, .a.b[0]["c"] and .a.value
WrittenPaths ==
    {<<".", "a">>,
     <<".", "a", ".", "b">>,
     <<".", "a", ".", "b", "[", "0", "]", "[", "\"", "c", "\"", "]">>,
     ValuePath}

\* the paths read: those written, .a.b[0] and .a.b[1]["c"]
Paths ==
    WrittenPaths \cup
        {<<".", "a", ".", "b", "[", "0", "]">>,
         <<".", "a", ".", "b", "[", "1", "]", "[", "\"", "c", "\"", "]">>}

VariableNames == {VARIABLES_PREFIX \o p : p \in Paths}
ParameterNames == {PARAMETER_PREFIX \o p : p \in Paths}

\* the containers a name is written to: the variables are built under
\* $variables (build_parameter_container_for_variables), the parameters of
\* a domain under $parameter
Targets == {"variables"} \cup DomainIds
ParameterValues ==
    {Scalar(1),
     List(<<Dict(<<"c">> :> Scalar(1))>>),
     Dict(<<"c">> :> Scalar(2))}

\* what is written to a path: the value of a parameter may carry its details
ValuesOf(written_path) ==
    IF written_path = ValuePath
    THEN {Scalar(1), Dict(FULLY_QUALIFIED_PARAMETER_NAME_METADATA_KEY :> Scalar(2))}
    ELSE ParameterValues

\* names that lack the $ sigil
NamesWithoutSigil == {DropFirst(VARIABLES_PREFIX \o <<".", "a">>, 1),
                      DropFirst(PARAMETER_PREFIX \o <<".", "a">>, 1)}

\* the names of the domain kwargs: the whole mapping, .c and ["c"]
DomainKwargsNames ==
    {DOMAIN_KWARGS_PARAMETER_FULLY_QUALIFIED_NAME,
     DOMAIN_KWARGS_PARAMETER_FULLY_QUALIFIED_NAME \o <<".", "c">>,
     DOMAIN_KWARGS_PARAMETER_FULLY_QUALIFIED_NAME \o <<"[", "\"", "c", "\"", "]">>}

\* the names read
ReadNames == VariableNames \cup ParameterNames \cup DomainKwargsNames \cup NamesWithoutSigil

\* the build_parameter_container calls made: every written path with each
\* of its values to the first domain, three variables, one parameter to
\* the second domain, a name without sigil to each kind of container, and
\* a name of another root to the first domain
PathValues == UNION {{<<p, v>> : v \in ValuesOf(p)} : p \in WrittenPaths}
Write(target, name, value) == [target |-> target, name |-> name, value |-> value]
Writes ==
    {Write("d1", PARAMETER_PREFIX \o pv[1], pv[2]) : pv \in PathValues}
        \cup {Write("variables", VARIABLES_PREFIX \o <<".", "a">>, Scalar(1)),
               Write("variables", VARIABLES_PREFIX \o <<".", "a", ".", "b">>,
                     Dict(<<"c">> :> Scalar(2))),
               Write("variables", VARIABLES_PREFIX \o ValuePath,
                     Dict(FULLY_QUALIFIED_PARAMETER_NAME_METADATA_KEY :> Scalar(2)))}
        \cup {Write("d2", PARAMETER_PREFIX \o <<".", "a">>, Scalar(1))}
        \cup {Write("variables", DropFirst(VARIABLES_PREFIX \o <<".", "a">>, 1), Scalar(1)),
               Write("d1", DropFirst(PARAMETER_PREFIX \o <<".", "a">>, 1), Scalar(1))}
        \cup {Write("d1", VARIABLES_PREFIX \o <<".", "a">>, Scalar(2))}

\* the domains a name is read for
Domains ==
    {None, Domain("d1", Dict(<<"c">> :> Scalar(1))), Domain("d2", None)}

\* the reads made: every name for the first domain, and one variable, one
\* parameter and the names of the domain kwargs without a domain and for
\* the second domain
Reads ==
    {<<name, Domain("d1", Dict(<<"c">> :> Scalar(1)))>> : name \in ReadNames}
        \cup ({VARIABLES_PREFIX \o <<".", "a">>, PARAMETER_PREFIX \o <<".", "a">>}
                  \cup DomainKwargsNames) \X {None, Domain("d2", None)}

\* the listings made: for each domain in every iteration order of the
\* reserved literals, and without a domain
Listings ==
    ((Domains \ {None}) \X IterationOrders)
        \cup {<<None, CHOOSE order \in IterationOrders : TRUE>>}

ContainerOf(target) ==
    IF target = "variables" THEN variables ELSE Items(parameters)[target]

\* build_parameter_container(parameter_container, {name: value}) on the
\* container of the variables or of a domain
BuildParameterContainer(target, fully_qualified_parameter_name, parameter_value) ==
    LET built == build_parameter_container(ContainerOf(target),
                                           fully_qualified_parameter_name, parameter_value)
    IN  /\ Len(written) < MaxWrites
        /\ variables' = IF target = "variables" THEN built.value ELSE variables
        /\ parameters' = IF target = "variables" THEN parameters
                         ELSE SetKey(parameters, target, built.value)
        /\ written' = Append(written, [target |-> target,
                                       name |-> fully_qualified_parameter_name,
                                       value |-> parameter_value,
                                       raised |-> built.raised])
        /\ lookup' = NoLookup
        /\ listed' = NoListing
        /\ UNCHANGED <<depVars, provVars, runVars, dataVars, parsed>>

\* get_parameter_value_by_fully_qualified_parameter_name(name, domain,
\* variables, parameters)
GetParameterValue(fully_qualified_parameter_name, domain) ==
    /\ lookup = NoLookup
    /\ lookup' = [name |-> fully_qualified_parameter_name, domain |-> domain,
                  result |-> get_parameter_value_by_fully_qualified_parameter_name(
                                 fully_qualified_parameter_name, domain, variables,
                                 parameters)]
    /\ UNCHANGED <<variables, parameters, written, listed>>
    /\ UNCHANGED <<depVars, provVars, runVars, dataVars, parsed>>

\* get_fully_qualified_parameter_names(domain, variables, parameters) and
\* get_parameter_values_for_fully_qualified_parameter_names(domain,
\* variables, parameters), in an interpreter run in which the reserved
\* literals are gone through in the given order
GetParameterValuesForNames(domain, order) ==
    /\ listed = NoListing
    /\ listed' = [domain |-> domain, order |-> order,
                  names |-> get_fully_qualified_parameter_names(domain, variables,
                                                                parameters, order),
                  values |-> get_parameter_values_for_fully_qualified_parameter_names(
                                 domain, variables, parameters, order)]
    /\ UNCHANGED <<variables, parameters, written, lookup>>
    /\ UNCHANGED <<depVars, provVars, runVars, dataVars, parsed>>

Writable == Len(written) < MaxWrites
Unread == lookup = NoLookup /\ listed = NoListing

ParamNext ==
    \/ Writable /\ \E w \in Writes : BuildParameterContainer(w.target, w.name, w.value)
    \/ Unread /\ \E read \in Reads : GetParameterValue(read[1], read[2])
    \/ Unread /\ \E listing \in Listings : GetParameterValuesForNames(listing[1], listing[2])

\* the names do not depend on the engine of the run
ParamInit == Init /\ execution_engine = "PandasExecutionEngine"

SpecParams == ParamInit /\ [][ParamNext]_vars

\* ------------------------------------------------------------------------
\* Parsing one part of a name
\* ------------------------------------------------------------------------

\* the characters of the parts parsed: a letter, a digit, the sign, the
\* brackets and the two quotes
SegmentCharacters == {"a", "1", "-", "[", "]", "\"", "'"}

\* every text of these characters, up to the longest
Segments == UNION {[1..n -> SegmentCharacters] : n \in 0..MaxSegment}

\* _parse_attribute_naming_pattern(name), once
ParseAttributeNamingPattern(name) ==
    /\ parsed = NoParse
    /\ parsed' = [name |-> name, result |-> _parse_attribute_naming_pattern(name)]
    /\ UNCHANGED <<variables, parameters, written, lookup, listed>>
    /\ UNCHANGED <<depVars, provVars, runVars, dataVars>>

Unparsed == parsed = NoParse

ParseNext == Unparsed /\ \E name \in Segments : ParseAttributeNamingPattern(name)

SpecParse == ParamInit /\ [][ParseNext]_vars

\* ------------------------------------------------------------------------
\* Properties of the dependency resolver
\* ------------------------------------------------------------------------

Requested == path[1].metric
Current == path[Len(path)].metric
CurrentBase == ClassNamed(path[Len(path)].cls).base

LastSegment(n) == n[Len(n)]

\* the prefixes X of a name: name = X \o suffix for some suffix
Prefixes(n) == { SubSeq(n, 1, k) : k \in 0..Len(n) }

HasRole(d, role, n) == role \in DOMAIN d /\ d[role].metric_name = n

AggregateFnRegistered(n) ==
    <<n \o <<"aggregate_fn">>, execution_engine>> \in DOMAIN registry

\* C1: the dependencies of a metric named X.unexpected_count hold exactly one
\* of two roles: metric_partial_fn -> X.unexpected_count.aggregate_fn when
\* that metric is registered for the engine (and then no unexpected_condition),
\* otherwise unexpected_condition -> X.condition (and no metric_partial_fn).
C1_UnexpectedCountRole ==
    (path # <<>> /\ Len(Current.metric_name) >= 2
                 /\ LastSegment(Current.metric_name) = "unexpected_count") =>
        \E X \in Prefixes(Current.metric_name) :
            /\ Current.metric_name = X \o <<"unexpected_count">>
            /\ IF AggregateFnRegistered(Current.metric_name)
               THEN /\ HasRole(dependencies, "metric_partial_fn",
                               X \o <<"unexpected_count", "aggregate_fn">>)
                    /\ "unexpected_condition" \notin DOMAIN dependencies
               ELSE /\ HasRole(dependencies, "unexpected_condition",
                               X \o <<"condition">>)
                    /\ "metric_partial_fn" \notin DOMAIN dependencies

\* C1 witness: X.unexpected_count was requested with its aggregate_fn registered
C1_Witness ==
    /\ path # <<>>
    /\ LastSegment(Current.metric_name) = "unexpected_count"
    /\ AggregateFnRegistered(Current.metric_name)
    /\ "metric_partial_fn" \in DOMAIN dependencies

ConditionSuffixes ==
    { <<"unexpected_count", "aggregate_fn">>, <<"unexpected_values">>,
      <<"unexpected_value_counts">>, <<"unexpected_index_list">>,
      <<"unexpected_rows">>, <<"filtered_row_count">> }

\* C2: for a metric named X<suffix>, suffix one of .unexpected_count.aggregate_fn,
\* .unexpected_values, .unexpected_value_counts, .unexpected_index_list,
\* .unexpected_rows, .filtered_row_count, the dependencies hold
\* unexpected_condition -> X.condition with the metric's own domain kwargs.
C2_ConditionOfSuffix ==
    path # <<>> =>
        \A X \in Prefixes(Current.metric_name) : \A sfx \in ConditionSuffixes :
            (X # <<>> /\ Current.metric_name = X \o sfx) =>
                /\ HasRole(dependencies, "unexpected_condition", X \o <<"condition">>)
                /\ dependencies["unexpected_condition"].metric_domain_kwargs
                     = Current.metric_domain_kwargs

\* C2 witness: X.unexpected_count.aggregate_fn was reached with a column accessor
C2_Witness ==
    /\ Len(path) = 2
    /\ \E X \in Prefixes(Current.metric_name) :
          X # <<>> /\ Current.metric_name = X \o <<"unexpected_count", "aggregate_fn">>
    /\ "column" \in DOMAIN Current.metric_domain_kwargs
    /\ "unexpected_condition" \in DOMAIN dependencies

\* the accessor keys of each column-domain provider class
AccessorKeys(base) ==
    IF base = "ColumnMapMetricProvider" THEN {"column"}
    ELSE IF base = "ColumnPairMapMetricProvider"
         THEN {"column_A", "column_B", "ignore_row_if"}
         ELSE {"column_list", "ignore_row_if"}

\* dk is the domain kwargs d with the keys removed and all others unchanged
IsStripped(dk, d, keys) ==
    /\ DOMAIN dk = (DOMAIN d) \ keys
    /\ \A k \in DOMAIN dk : dk[k] = d[k]

TableRoles ==
    { <<"table.column_types", <<"table", "column_types">> >>,
      <<"table.columns", <<"table", "columns">> >>,
      <<"table.row_count", <<"table", "row_count">> >> }

\* C3: for every column-domain provider class and every metric, the
\* dependencies hold table.column_types, table.columns and table.row_count,
\* each with the metric's domain kwargs less the class's accessor keys.
C3_TableDependencies ==
    path # <<>> =>
        \A r \in TableRoles :
            /\ HasRole(dependencies, r[1], r[2])
            /\ IsStripped(dependencies[r[1]].metric_domain_kwargs,
                          Current.metric_domain_kwargs, AccessorKeys(CurrentBase))

\* C3 witness: a column pair metric with ignore_row_if was requested
C3_Witness ==
    /\ path # <<>>
    /\ CurrentBase = "ColumnPairMapMetricProvider"
    /\ {"column_A", "column_B", "ignore_row_if"} \subseteq DOMAIN Current.metric_domain_kwargs
    /\ "table.columns" \in DOMAIN dependencies

\* a request of X.unexpected_count made of a COLUMN-domain provider class
ColumnUnexpectedCountRequested ==
    /\ path # <<>>
    /\ ClassNamed(path[1].cls).base = "ColumnMapMetricProvider"
    /\ Len(Requested.metric_name) >= 2
    /\ LastSegment(Requested.metric_name) = "unexpected_count"

RequestedCondition ==
    SubSeq(Requested.metric_name, 1, Len(Requested.metric_name) - 1) \o <<"condition">>

ClosureNames == { m.metric_name : m \in closure }

\* X.condition and the three table metrics are in the dependency set, or the
\* aggregate_fn through which X.condition is reached has yet to be followed
ClosureIncludes ==
    /\ {r[2] : r \in TableRoles} \subseteq ClosureNames
    /\ \/ RequestedCondition \in ClosureNames
       \/ /\ Len(path) = 1
          /\ "metric_partial_fn" \in DOMAIN dependencies
          /\ <<dependencies["metric_partial_fn"].metric_name, execution_engine>>
                \in DOMAIN registry

\* C4 (as claimed): requesting X.unexpected_count of a COLUMN-domain class
\* yields X.condition, table.columns, table.column_types and table.row_count,
\* all of them with the same accessor-stripped domain kwargs.
C4_AllAccessorStripped ==
    ColumnUnexpectedCountRequested =>
        /\ ClosureIncludes
        /\ \A m \in closure :
             m.metric_name \in {r[2] : r \in TableRoles} \cup {RequestedCondition} =>
                IsStripped(m.metric_domain_kwargs, Requested.metric_domain_kwargs,
                           {"column"})

\* C4 (amended): the three table metrics carry the accessor-stripped domain
\* kwargs, and X.condition carries the requested domain kwargs unchanged,
\* accessor key included.
C4_ClosureDomains ==
    ColumnUnexpectedCountRequested =>
        /\ ClosureIncludes
        /\ \A m \in closure :
             /\ m.metric_name \in {r[2] : r \in TableRoles} =>
                   IsStripped(m.metric_domain_kwargs, Requested.metric_domain_kwargs,
                              {"column"})
             /\ m.metric_name = RequestedCondition =>
                   m.metric_domain_kwargs = Requested.metric_domain_kwargs

\* C4 witness: X.condition was reached through X.unexpected_count.aggregate_fn
C4_Witness ==
    /\ ColumnUnexpectedCountRequested
    /\ Len(path) = 3
    /\ Current.metric_name = RequestedCondition
    /\ "column" \in DOMAIN Requested.metric_domain_kwargs

SuffixRoles == {"metric_partial_fn", "unexpected_condition", "metric_map_fn"}

C7_DependenciesFirst ==
    /\ \A m \in DOMAIN resolved : Range(graph[m]) \subseteq DOMAIN resolved
    /\ \A w \in Resolvers :
          computing[w] # NoMetric =>
             ProviderReads(ProviderOf(registry, computing[w], execution_engine))
                \subseteq DOMAIN provider_metrics[w]

\* C7 witness: the provider of X.unexpected_values runs with the condition
\* and table.columns resolved, its sibling X.unexpected_rows resolved before it
C7_Witness ==
    \E w \in Resolvers :
        /\ computing[w] # NoMetric
        /\ computing[w].metric_name[Len(computing[w].metric_name)] = "unexpected_values"
        /\ {"unexpected_condition", "table.columns"} \subseteq DOMAIN provider_metrics[w]
        /\ \E m \in DOMAIN resolved :
              m.metric_name[Len(m.metric_name)] = "unexpected_rows"

\* ------------------------------------------------------------------------
\* Properties of the partial adapters and the realization providers
\* ------------------------------------------------------------------------

\* the column names an accessor refers to
ReferencedColumns(adk) ==
    (IF "column" \in DOMAIN adk THEN {adk["column"]} ELSE {})
    \cup (IF "column_A" \in DOMAIN adk THEN {adk["column_A"]} ELSE {})
    \cup (IF "column_B" \in DOMAIN adk THEN {adk["column_B"]} ELSE {})
    \cup (IF "column_list" \in DOMAIN adk
          THEN { adk["column_list"][i] : i \in 1..Len(adk["column_list"]) }
          ELSE {})

ColumnNotInTable ==
    ~(ReferencedColumns(invocation.accessor_domain_kwargs)
        \subseteq invocation.table_columns)

C9_ProviderChecksColumns ==
    (invocation.kind = "provider" /\ ColumnNotInTable) =>
        outcome.raised = InvalidKey

\* C10 (as claimed): a realization provider called without an accessor key
\* its domain kind requires raises InvalidMetricAccessorDomainKwargsKeyError.
C10_MissingKeyError ==
    (/\ invocation.kind = "provider"
     /\ ~(ProviderAccessorKeys(invocation.name)
            \subseteq DOMAIN invocation.accessor_domain_kwargs)) =>
        outcome.raised = InvalidKey

\* ------------------------------------------------------------------------
\* Properties of the realizations of a condition
\* ------------------------------------------------------------------------

IsDetail == realized.metric \in DetailMetrics
Capped == realized.result_format.result_format # "COMPLETE"
CompleteFormat == [result_format |-> "COMPLETE", partial_unexpected_count |-> 0]

\* k: the number of rows the condition marks unexpected
UnexpectedRowCount ==
    IF Masked
    THEN Cardinality({ idx \in DOMAIN unexpected_condition.mask : unexpected_condition.mask[idx] })
    ELSE Len(Where(Records("forward"), unexpected_condition.predicate))

IsPrefixOf(s, t) == Len(s) <= Len(t) /\ s = SubSeq(t, 1, Len(s))

\* every item of s occurs in t at least as often
IsSubBagOf(s, t) == \A item \in { s[i] : i \in 1..Len(s) } : Len(SelectSeq(s, LAMBDA c : c = item)) <= Len(SelectSeq(t, LAMBDA c : c = item))

\* the decorator's filter_column_isnull keyword, if any, agrees with the class attribute
FilterAgrees == FilterColumnIsNull(batch.kwargs, batch.cls, ConditionPartialDefault) = getattr(batch.cls, "filter_column_isnull", FALSE)

UnexpectedCount == UnexpectedCountResult("unexpected_count").value

Untruncated ==
    /\ ~(batch.dialect = "bigquery" /\ realized.metric = "unexpected_values")
    /\ batch.execution_engine = "PandasExecutionEngine" => FilterAgrees

IsValueCounts == realized.metric = "unexpected_value_counts"

\* C13 (as stated): unexpected_value_counts returns the counts of all distinct unexpected
\* values under COMPLETE and at most partial_unexpected_count of them otherwise.
C13_ValueCountsHonourFormat ==
    (IsValueCounts /\ ~realized.direct_fails) =>
       /\ realized.result.raised = "None"
       /\ Capped =>
             Len(realized.result.value) <= realized.result_format.partial_unexpected_count
       /\ (~Capped /\ ~Masked) =>
             { realized.result.value[i].value : i \in DOMAIN realized.result.value } =
                Range(Where(Records("forward"), unexpected_condition.predicate))

\* C14 (as stated): the pandas provider tries the tuple-coercion fallback once when the
\* direct value count fails, raises MetricComputationError only if the fallback fails
\* too, and returns a result without error whenever either attempt succeeds.
C14_FallbackThenError ==
    (IsValueCounts /\ batch.execution_engine = "PandasExecutionEngine" /\ FilterAgrees) =>
       LET d == ProviderRecords(batch.cls, DataFrame(batch.table))
           attempt == pandas_value_counts_attempts(
                          Column(BooleanIndex(d, unexpected_condition.mask)),
                          realized.direct_fails, realized.fallback_fails)
       IN /\ attempt.attempts = IF realized.direct_fails THEN 2 ELSE 1
          /\ realized.result.raised = "MetricComputationError" =>
                realized.direct_fails /\ realized.fallback_fails
          /\ ~(realized.direct_fails /\ realized.fallback_fails) =>
                realized.result.raised = "None"

ConditionFiltersNull == FilterColumnIsNull(batch.kwargs, batch.cls, ConditionPartialDefault)

\* C15: a condition partial stores the negation of the business function's result: a
\* pandas mask marks a row exactly when the function does not hold of it; the SQL
\* column predicate is NOT(meets) AND column IS NOT NULL with null filtering and
\* NOT(meets) without; the column pair predicate is NOT(meets).
C15_NegatedCondition ==
    /\ (batch.partial = "column_condition_partial" /\ Masked) =>
          \A idx \in DOMAIN unexpected_condition.mask :
             unexpected_condition.mask[idx] = (batch.metric_fn[batch.table[idx + 1]] # "TRUE")
    /\ (batch.partial = "column_condition_partial"
          /\ batch.execution_engine = "SqlAlchemyExecutionEngine") =>
          \A c \in Cells :
             /\ unexpected_condition.predicate[c] = "TRUE" <=>
                   batch.metric_fn[c] = "FALSE" /\ (ConditionFiltersNull => c # Null)
             /\ unexpected_condition.predicate[c] = "FALSE" <=>
                   batch.metric_fn[c] = "TRUE" \/ (ConditionFiltersNull /\ c = Null)
    /\ batch.partial = "column_pair_condition_partial" =>
          \A p \in PairCells :
             /\ unexpected_condition.predicate[p] = "TRUE" <=> batch.metric_fn[p] = "FALSE"
             /\ unexpected_condition.predicate[p] = "FALSE" <=> batch.metric_fn[p] = "TRUE"

\* a SQL condition with null filtering rejected a null the business function does not accept
C15_Witness ==
    /\ batch.partial = "column_condition_partial"
    /\ batch.execution_engine = "SqlAlchemyExecutionEngine"
    /\ ConditionFiltersNull
    /\ batch.metric_fn[Null] = "FALSE"
    /\ unexpected_condition.predicate[Null] = "FALSE"
    /\ \E c \in Cells : unexpected_condition.predicate[c] = "TRUE"

\* the class does not set filter_column_isnull and the decorator was called without it
DefaultFilter == batch.kwargs = <<>> /\ batch.cls = <<>>

\* C16 (as stated): with the defaults, a column function partial does not drop null rows
\* while a column condition partial does.
C16_FunctionPartialKeepsNulls ==
    /\ (batch.partial = "column_function_partial" /\ DefaultFilter) =>
          Len(realized.result.value) = Len(batch.table)
    /\ (batch.partial = "column_condition_partial" /\ DefaultFilter /\ Masked) =>
          DOMAIN unexpected_condition.mask =
             { i - 1 : i \in { j \in 1..Len(batch.table) : batch.table[j] # Null } }

IsCount == realized.metric \in CountRealizations

\* the in-memory mask of the same condition: a row is marked when the predicate is true of it
EquivalentMask ==
    [idx \in { i - 1 : i \in 1..Len(Records("forward")) } |->
        unexpected_condition.predicate[Records("forward")[idx + 1]] = "TRUE"]

\* C18 (as stated): the subquery-materialize value, the aggregate
\* SUM(CASE WHEN cond THEN 1 ELSE 0 END) and the in-memory count of true mask entries
\* are the same number, and the subquery-materialize value is 0 for a table with no rows.
C18_CountRealizationsAgree ==
    (IsCount /\ batch.execution_engine = "SqlAlchemyExecutionEngine") =>
       LET subquery == sqlalchemy_map_condition_unexpected_count_value(
                           Records("forward"), unexpected_condition.predicate).value
           aggregate == sqlalchemy_map_condition_unexpected_count_aggregate_fn(
                            Records("forward"), unexpected_condition.predicate).value
           in_memory == pandas_map_condition_unexpected_count(EquivalentMask).value
       IN /\ subquery = in_memory
          /\ aggregate = SqlValue(subquery)
          /\ Len(batch.table) = 0 => subquery = 0

\* ------------------------------------------------------------------------
\* Properties of the registration
\* ------------------------------------------------------------------------

\* the names X whose X.condition one member registered for the SQL backend
SqlConditions ==
    IF registered # 1 THEN {}
    ELSE { StripSuffix(k[1], <<"condition">>) :
             k \in { q \in DOMAIN registry :
                       /\ q[2] = "SqlAlchemyExecutionEngine"
                       /\ EndsWith(q[1], <<"condition">>)
                       /\ registry[q].metric_fn_type \in ConditionFnTypes } }

SqlEntry(n) == registry[<<n, "SqlAlchemyExecutionEngine">>]
SqlRegistered(n) == <<n, "SqlAlchemyExecutionEngine">> \in DOMAIN registry

\* X.unexpected_count.aggregate_fn is registered and X.unexpected_count has no provider
AggregatePushdown(X) ==
    /\ SqlRegistered(X \o <<"unexpected_count", "aggregate_fn">>)
    /\ SqlRegistered(X \o <<"unexpected_count">>)
    /\ SqlEntry(X \o <<"unexpected_count">>).metric_provider = "None"

\* X.unexpected_count has the value provider and no aggregate_fn is registered
SubqueryMaterialize(X) ==
    /\ ~SqlRegistered(X \o <<"unexpected_count", "aggregate_fn">>)
    /\ SqlRegistered(X \o <<"unexpected_count">>)
    /\ SqlEntry(X \o <<"unexpected_count">>).metric_provider =
          "_sqlalchemy_map_condition_unexpected_count_value"

\* C17 (as stated): on the SQL backend every plain condition is registered for
\* aggregate pushdown and every window condition for subquery-materialize.
C17_PlainPushdownWindowSubquery ==
    \A X \in SqlConditions :
       IF SqlEntry(X \o <<"condition">>).metric_fn_type = "MAP_CONDITION_FN"
       THEN AggregatePushdown(X)
       ELSE SubqueryMaterialize(X)

\* C17 (amended): a plain condition over the COLUMN domain is registered for aggregate
\* pushdown; a window condition, and a plain condition over a column pair or
\* multicolumn domain, for subquery-materialize.
C17_ColumnPlainPushdown ==
    \A X \in SqlConditions :
       IF /\ SqlEntry(X \o <<"condition">>).metric_fn_type = "MAP_CONDITION_FN"
          /\ ClassNamed(SqlEntry(X \o <<"condition">>).metric_class).domain_type = "COLUMN"
       THEN AggregatePushdown(X)
       ELSE SubqueryMaterialize(X)

\* a plain condition over a column pair was registered for the SQL backend
C17_Witness ==
    \E X \in SqlConditions :
       /\ SqlEntry(X \o <<"condition">>).metric_fn_type = "MAP_CONDITION_FN"
       /\ ClassNamed(SqlEntry(X \o <<"condition">>).metric_class).domain_type = "COLUMN_PAIR"
       /\ SubqueryMaterialize(X)

\* the suffixes of the metrics registered for a condition X, X.condition
\* apart
UnexpectedSuffixes ==
    { <<"unexpected_count">>, <<"unexpected_count", "aggregate_fn">>,
      <<"unexpected_values">>, <<"unexpected_value_counts">>,
      <<"unexpected_index_list">>, <<"unexpected_rows">>, <<"filtered_row_count">> }

\* the roles MapMetricProvider._get_evaluation_dependencies fills
MapRoles == {"metric_partial_fn", "unexpected_condition", "metric_map_fn"}

\* C29: when X.unexpected_count is registered for an engine without a
\* provider, X.unexpected_count.aggregate_fn is registered for that engine;
\* X.condition is registered for every engine for which a metric
\* X.unexpected_... or X.filtered_row_count is registered; and the
\* dependencies MapMetricProvider._get_evaluation_dependencies gives for a
\* metric registered for the engine of the run are registered for it (the
\* registry is written only before the request, so it is looked at there)
C29_DependenciesRegistered ==
    /\ path = <<>> =>
          \A key \in DOMAIN registry :
              /\ (EndsWith(key[1], <<"unexpected_count">>)
                      /\ registry[key].metric_provider = "None") =>
                    IsRegistered(registry, key[1] \o <<"aggregate_fn">>, key[2])
              /\ \A suffix \in UnexpectedSuffixes :
                    EndsWith(key[1], suffix) =>
                        IsRegistered(registry,
                                     StripSuffix(key[1], suffix) \o <<"condition">>, key[2])
    /\ (path # <<>> /\ IsRegistered(registry, Current.metric_name, execution_engine)) =>
          \A role \in DOMAIN dependencies \cap MapRoles :
              IsRegistered(registry, dependencies[role].metric_name, execution_engine)

\* X.unexpected_count, registered without a provider for the engine of the
\* run, depends on its registered aggregate_fn, which is followed to the
\* registered condition
C29_Witness ==
    /\ Len(path) = 2
    /\ EndsWith(Requested.metric_name, <<"unexpected_count">>)
    /\ IsRegistered(registry, Requested.metric_name, execution_engine)
    /\ registry[<<Requested.metric_name, execution_engine>>].metric_provider = "None"
    /\ EndsWith(Current.metric_name, <<"unexpected_count", "aggregate_fn">>)
    /\ "unexpected_condition" \in DOMAIN dependencies
    /\ IsRegistered(registry, dependencies["unexpected_condition"].metric_name,
                    execution_engine)

\* the metric, requested with another result_format
WithResultFormat(metric, result_format) ==
    MetricConfiguration(
        metric.metric_name, metric.metric_domain_kwargs,
        [k \in DOMAIN metric.metric_value_kwargs \cup {"result_format"} |->
            IF k = "result_format" THEN result_format ELSE metric.metric_value_kwargs[k]])

RequestedResultFormats ==
    {vk["result_format"] : vk \in {s \in ValueKwargsSamples : "result_format" \in DOMAIN s}}

\* C30: the unexpected_condition and metric_partial_fn dependencies of a
\* metric have its value kwargs without result_format and its domain
\* kwargs, and they are the same dependencies when the metric is requested
\* with another result_format
C30_ResultFormatDropped ==
    path # <<>> =>
        \A role \in DOMAIN dependencies \cap {"unexpected_condition", "metric_partial_fn"} :
            /\ dependencies[role].metric_value_kwargs
                  = Without(Current.metric_value_kwargs, {"result_format"})
            /\ dependencies[role].metric_domain_kwargs = Current.metric_domain_kwargs
            /\ \A result_format \in RequestedResultFormats :
                  MapGetEvaluationDependencies(WithResultFormat(Current, result_format),
                                               execution_engine, registry)[role]
                      = dependencies[role]

\* X.unexpected_values is requested with a result_format and depends on the
\* condition without it
C30_Witness ==
    /\ path # <<>>
    /\ EndsWith(Current.metric_name, <<"unexpected_values">>)
    /\ "result_format" \in DOMAIN Current.metric_value_kwargs
    /\ "unexpected_condition" \in DOMAIN dependencies
    /\ "result_format" \notin DOMAIN dependencies["unexpected_condition"].metric_value_kwargs
    /\ dependencies["unexpected_condition"].metric_value_kwargs # NoKwargs

\* ------------------------------------------------------------------------
\* Properties of the parameter names
\* ------------------------------------------------------------------------

Read == lookup # NoLookup

\* the container a read of the name for the domain is resolved against
RoutedTo(name, domain) ==
    IF startswith(name, VARIABLES_PREFIX) THEN "variables"
    ELSE IF domain = None THEN "none" ELSE domain.id

LastWrite == written[Len(written)]

\* the name read is the name last written, in the container the read is
\* resolved against
ReadOfLastWrite ==
    /\ Read
    /\ written # <<>>
    /\ LastWrite.raised = "None"
    /\ LastWrite.name = lookup.name
    /\ LastWrite.target = RoutedTo(lookup.name, lookup.domain)

\* the name has a part with a bracket accessor
HasAccessor(name) == \E i \in 1..Len(name) : name[i] = "["

\* C19: a name written with build_parameter_container and then read with
\* get_parameter_value_by_fully_qualified_parameter_name against the same
\* container gives the value written (a dict as the ParameterNode of the
\* same items)
C19_ReadReturnsWritten ==
    ReadOfLastWrite =>
        lookup.result = Returns(convert_dictionaries_to_parameter_nodes(LastWrite.value))

\* the container the name read is resolved against, when there is one
ReadContainer ==
    IF RoutedTo(lookup.name, lookup.domain) = "variables" THEN variables
    ELSE Items(parameters)[RoutedTo(lookup.name, lookup.domain)]

ReadParts == split(DropFirst(lookup.name, 1), FULLY_QUALIFIED_PARAMETER_NAME_SEPARATOR_CHARACTER)

\* the walk of the parts of the name read from the node of its root
ReadWalk == FollowParts(get_parameter_node(ReadContainer, ReadParts[1]), ReadParts)

\* the name read has a root that was written, and a key or an index of one
\* of its parts does not exist under it
ReadOfMissing ==
    /\ Read
    /\ RoutedTo(lookup.name, lookup.domain) # "none"
    /\ get_parameter_node(ReadContainer, ReadParts[1]) # None
    /\ ReadWalk.raised # "None"

\* C20: reading a name of which a key or an index does not exist raises the
\* KeyError whose message names the part of the name that failed; it does
\* not return and raises no other exception
C20_MissingRaisesNamedPart ==
    ReadOfMissing => lookup.result = RaisesNaming("KeyError", ReadWalk.part)

\* the result of resolving the name read against one container
ResolvedAgainst(parameter_container) ==
    _get_parameter_value_from_parameter_container(DropFirst(lookup.name, 1), ReadParts,
                                                  parameter_container)

\* no domain has a parameter
EmptyParameters == Dict([id \in DomainIds |-> ParameterContainer(None)])

\* the parameters with the container of every other domain emptied
OnlyParametersOf(domain) ==
    Dict([id \in DomainIds |->
            IF id = domain.id THEN Items(parameters)[id] ELSE ParameterContainer(None)])

ReadOfVariable ==
    Read /\ startswith(lookup.name, VARIABLES_PREFIX \o <<FULLY_QUALIFIED_PARAMETER_NAME_SEPARATOR_CHARACTER>>)

ReadOfParameter ==
    /\ Read
    /\ startswith(lookup.name, PARAMETER_PREFIX \o <<FULLY_QUALIFIED_PARAMETER_NAME_SEPARATOR_CHARACTER>>)
    /\ lookup.domain # None

\* C21: a name $variables.<path> is resolved against the container of the
\* variables and its result is the same whatever the parameters of the
\* domains are; a name $parameter.<path> is resolved against the container
\* stored for the id of the domain and its result is the same whatever the
\* variables and the containers of the other domains are
C21_RoutingIsExclusive ==
    /\ ReadOfVariable =>
        /\ lookup.result = ResolvedAgainst(variables)
        /\ \A others \in {None, EmptyParameters} :
              lookup.result = get_parameter_value_by_fully_qualified_parameter_name(
                                  lookup.name, lookup.domain, variables, others)
    /\ ReadOfParameter =>
        /\ lookup.result = ResolvedAgainst(Items(parameters)[lookup.domain.id])
        /\ \A others \in {None, ParameterContainer(None)} :
              lookup.result = get_parameter_value_by_fully_qualified_parameter_name(
                                  lookup.name, lookup.domain, others,
                                  OnlyParametersOf(lookup.domain))

\* a parameter of the first domain is read and found while the second
\* domain holds another value under the same name
C21_Witness ==
    /\ ReadOfParameter
    /\ lookup.domain.id = "d1"
    /\ lookup.result.raised = "None"
    /\ lookup.result.value # None
    /\ Items(parameters)["d2"] # ParameterContainer(None)
    /\ ResolvedAgainst(Items(parameters)["d2"]) # lookup.result

\* a read for a domain, of a name that starts with $domain.domain_kwargs
ReadOfDomainKwargs ==
    Read /\ startswith(lookup.name, DOMAIN_KWARGS_PARAMETER_FULLY_QUALIFIED_NAME)

\* the text that follows $domain.domain_kwargs in the name read
DomainKwargsKey ==
    DropFirst(lookup.name, Len(DOMAIN_KWARGS_PARAMETER_FULLY_QUALIFIED_NAME))

\* ["key"]
Bracketed(key) == <<"[", "\"">> \o key \o <<"\"", "]">>

\* the name is resolved from the domain alone: no container is consulted
ReadsNoContainer ==
    lookup.result = get_parameter_value_by_fully_qualified_parameter_name(
                        lookup.name, lookup.domain, None, None)

\* the whole mapping is returned for $domain.domain_kwargs, and nothing
\* without a domain
WholeDomainKwargs ==
    /\ lookup.domain = None => lookup.result = Returns(None)
    /\ lookup.domain # None /\ DomainKwargsKey = <<>> =>
          lookup.result = Returns(lookup.domain.domain_kwargs)

\* C22 as stated: $domain.domain_kwargs is read from the domain_kwargs of
\* the domain and from no container; $domain.domain_kwargs gives the whole
\* mapping and $domain.domain_kwargs["key"] the entry stored under key
C22_BracketKeyReturnsEntry ==
    ReadOfDomainKwargs =>
        /\ ReadsNoContainer
        /\ WholeDomainKwargs
        /\ lookup.domain # None /\ Truthy(lookup.domain.domain_kwargs) =>
              \A key \in DOMAIN Items(lookup.domain.domain_kwargs) :
                  DomainKwargsKey = Bracketed(key) =>
                      lookup.result = Returns(Items(lookup.domain.domain_kwargs)[key])

\* C22, amended: $domain.domain_kwargs is read from the domain_kwargs of the
\* domain and from no container; $domain.domain_kwargs gives the whole
\* mapping and $domain.domain_kwargs.key the entry stored under key; any
\* other text after $domain.domain_kwargs loses its first character and is
\* looked up as a key, which gives None when no such key is stored
C22_DottedKeyReturnsEntry ==
    ReadOfDomainKwargs =>
        /\ ReadsNoContainer
        /\ WholeDomainKwargs
        /\ lookup.domain # None /\ Truthy(lookup.domain.domain_kwargs)
              /\ DomainKwargsKey # <<>> =>
              lookup.result = Returns(Get(lookup.domain.domain_kwargs,
                                          DropFirst(DomainKwargsKey, 1)))
        /\ lookup.domain # None /\ Truthy(lookup.domain.domain_kwargs) =>
              \A key \in DOMAIN Items(lookup.domain.domain_kwargs) :
                  /\ DomainKwargsKey = <<FULLY_QUALIFIED_PARAMETER_NAME_SEPARATOR_CHARACTER>> \o key =>
                        lookup.result = Returns(Items(lookup.domain.domain_kwargs)[key])
                  /\ DomainKwargsKey = Bracketed(key) => lookup.result = Returns(None)

\* the entry of a key of the domain kwargs is read by its dotted name while
\* the variables and the parameters of the domain hold values
C22_Witness ==
    /\ ReadOfDomainKwargs
    /\ lookup.domain # None
    /\ DomainKwargsKey = <<".", "c">>
    /\ lookup.result = Returns(Scalar(1))
    /\ variables # ParameterContainer(None)
    /\ Items(parameters)[lookup.domain.id] # ParameterContainer(None)

HasSigil(name) == startswith(name, <<FULLY_QUALIFIED_PARAMETER_NAME_DELIMITER_CHARACTER>>)

\* the container of the target after the first n writes, had the writes of
\* names without the sigil not been made at all
RECURSIVE WithoutRejectedWrites(_, _)
WithoutRejectedWrites(target, n) ==
    IF n = 0 THEN ParameterContainer(None)
    ELSE IF written[n].target = target /\ HasSigil(written[n].name)
    THEN build_parameter_container(WithoutRejectedWrites(target, n - 1),
                                   written[n].name, written[n].value).value
    ELSE WithoutRejectedWrites(target, n - 1)

\* C23: writing with build_parameter_container and reading with
\* get_parameter_value_by_fully_qualified_parameter_name a name that does
\* not start with $ raise ProfilerExecutionError, and the rejected write
\* leaves every container as if it had not been made
C23_SigilRequired ==
    /\ \A i \in 1..Len(written) :
          ~HasSigil(written[i].name) => written[i].raised = "ProfilerExecutionError"
    /\ \A target \in Targets :
          ContainerOf(target) = WithoutRejectedWrites(target, Len(written))
    /\ Read /\ ~HasSigil(lookup.name) => lookup.result = Raises("ProfilerExecutionError")

\* a name without the sigil is written to a container that holds a
\* parameter, and then read
C23_Witness ==
    /\ Len(written) = 2
    /\ written[1].raised = "None"
    /\ written[2].target = written[1].target
    /\ ~HasSigil(written[2].name)
    /\ written[2].raised = "ProfilerExecutionError"
    /\ Read
    /\ ~HasSigil(lookup.name)
    /\ lookup.result = Raises("ProfilerExecutionError")

\* the value read back for a name from one container
ReadBack(name, parameter_container) ==
    _get_parameter_value_from_parameter_container(
        DropFirst(name, 1),
        split(DropFirst(name, 1), FULLY_QUALIFIED_PARAMETER_NAME_SEPARATOR_CHARACTER),
        parameter_container)

\* the root of a name
RootOf(name) ==
    split(DropFirst(name, 1), FULLY_QUALIFIED_PARAMETER_NAME_SEPARATOR_CHARACTER)[1]

\* the roots of a container
RootsOf(parameter_container) ==
    IF parameter_container.parameter_nodes = None THEN {}
    ELSE DOMAIN Items(parameter_container.parameter_nodes)

\* the container the last write was made to, as it was before that write
BeforeLastWrite == WithoutRejectedWrites(LastWrite.target, Len(written) - 1)
AfterLastWrite == ContainerOf(LastWrite.target)

\* the writes made before the last one to the container of the last one
EarlierWrites ==
    {i \in 1..(Len(written) - 1) :
        written[i].target = LastWrite.target /\ written[i].raised = "None"}

Unrelated(name, other) == ~startswith(name, other) /\ ~startswith(other, name)

\* C27: a write with build_parameter_container leaves the value read back
\* for every name written before to the same container as it was, when
\* neither name is a prefix of the other, and leaves every other root of
\* the container as it was; the roots of the container are those it had
\* and the root of the name written; a name without accessors that is
\* written again, when the write does not raise, is read back with the
\* value of the last write
C27_WritesReuseNodes ==
    written # <<>> /\ HasSigil(LastWrite.name) =>
        /\ \A i \in EarlierWrites :
              Unrelated(written[i].name, LastWrite.name) =>
                  ReadBack(written[i].name, AfterLastWrite)
                      = ReadBack(written[i].name, BeforeLastWrite)
        /\ \A root \in RootsOf(BeforeLastWrite) \ {RootOf(LastWrite.name)} :
              get_parameter_node(AfterLastWrite, root)
                  = get_parameter_node(BeforeLastWrite, root)
        /\ RootsOf(AfterLastWrite) = RootsOf(BeforeLastWrite) \cup {RootOf(LastWrite.name)}
        /\ \A i \in EarlierWrites :
              (/\ written[i].name = LastWrite.name
               /\ ~HasAccessor(LastWrite.name)
               /\ LastWrite.raised = "None") =>
                  ReadBack(LastWrite.name, AfterLastWrite)
                      = Returns(convert_dictionaries_to_parameter_nodes(LastWrite.value))

\* a second name is written under the node of a first one, which is read
\* back with the value it was given
C27_Witness ==
    /\ Len(written) = 2
    /\ 1 \in EarlierWrites
    /\ LastWrite.raised = "None"
    /\ Unrelated(written[1].name, LastWrite.name)
    /\ RootOf(written[1].name) = RootOf(LastWrite.name)
    /\ ReadBack(written[1].name, AfterLastWrite)
          = Returns(convert_dictionaries_to_parameter_nodes(written[1].value))

\* the names were listed for a domain, and the listing returned
Listed == listed # NoListing /\ listed.domain # None /\ listed.names.raised = "None"

ListedNames == Elements(listed.names.value)

\* the container of the domain the names were listed for
ListedContainer == Items(parameters)[listed.domain.id]

\* the paths stored in the container of the domain, each as the list of
\* its keys after "parameter"
StoredPaths ==
    UNION {_get_parameter_node_attribute_names_as_lists(
               <<PARAMETER_NAME_ROOT_FOR_PARAMETERS>>,
               Items(ListedContainer.parameter_nodes)[root]) :
           root \in RootsOf(ListedContainer)}

\* the lowest position of a reserved literal in the path
EarliestLiteral(stored_path) ==
    CHOOSE i \in 1..Len(stored_path) :
        /\ stored_path[i] \in RESERVED_TERMINAL_LITERALS
        /\ \A j \in 1..(i - 1) : stored_path[j] \notin RESERVED_TERMINAL_LITERALS

\* the path up to its earliest reserved literal
CutAtEarliestLiteral(stored_path) ==
    IF Elements(stored_path) \cap RESERVED_TERMINAL_LITERALS = {} THEN stored_path
    ELSE SubSeq(stored_path, 1, EarliestLiteral(stored_path) - 1)

\* C25: the names listed for the container of a domain are those of its
\* stored paths, each cut at the reserved literal of lowest position in the
\* path, and they are the same in whichever order the reserved literals are
\* gone through
C25_CutAtEarliestLiteral ==
    Listed =>
        /\ ListedNames = Elements(NamesOfVariables(variables, listed.order))
                            \cup {AttributeName(CutAtEarliestLiteral(stored_path)) :
                                     stored_path \in StoredPaths}
        /\ \A order \in IterationOrders :
              get_fully_qualified_parameter_names(listed.domain, variables, parameters,
                                                  order) = listed.names

\* the variables hold a variable that was written
VariablesStored ==
    \E i \in 1..Len(written) : written[i].target = "variables" /\ written[i].raised = "None"

\* the names listed that do not come from the container of the domain
ListedOfVariables ==
    ListedNames \ Elements(NamesOfParameters(ListedContainer, listed.order))

\* C26 as stated: when variables are stored, the names listed for them are
\* the one name $variables.variables
C26_VariablesMarkerDoubled ==
    Listed /\ VariablesStored =>
        ListedOfVariables = {VARIABLES_PREFIX
                                \o <<FULLY_QUALIFIED_PARAMETER_NAME_SEPARATOR_CHARACTER>>
                                \o PARAMETER_NAME_ROOT_FOR_VARIABLES}

\* C26, amended: when variables are stored, the names listed for them are
\* the one name $variables, however many variables are stored and however
\* deep they are; when none is stored no name is listed for them
C26_VariablesMarker ==
    Listed =>
        ListedOfVariables = IF VariablesStored THEN {VARIABLES_PREFIX} ELSE {}

\* two variables are stored, one of them nested under the value of the
\* other, and $variables is the one name listed for them
C26_Witness ==
    /\ Listed
    /\ Len(written) = 2
    /\ \A i \in 1..2 : written[i].target = "variables" /\ written[i].raised = "None"
    /\ written[1].name # written[2].name
    /\ \E i \in 1..2 : IsDict(written[i].value)
    /\ listed.names.value = <<VARIABLES_PREFIX>>

\* C28: every name listed for a domain is read without error with the same
\* arguments, so that the values of the names are returned; the list has no
\* name twice and is in descending order
C28_ListedNamesResolve ==
    Listed =>
        /\ \A name \in ListedNames :
              get_parameter_value_by_fully_qualified_parameter_name(
                  name, listed.domain, variables, parameters).raised = "None"
        /\ listed.values.raised = "None"
        /\ \A i \in 1..(Len(listed.names.value) - 1) :
              StrLess(listed.names.value[i + 1], listed.names.value[i])

\* ------------------------------------------------------------------------
\* Properties of the parser of a part
\* ------------------------------------------------------------------------

Parsed == parsed # NoParse

\* a bare identifier: a letter, then letters, digits, "_" and "."
IsIdentifier(text) ==
    /\ text # <<>>
    /\ text[1] \in alphas
    /\ \A i \in 2..Len(text) : text[i] \in WordChars

\* "key" or 'key'
IsQuotedKey(text) ==
    /\ Len(text) >= 3
    /\ text[1] \in {"\"", "'"}
    /\ text[Len(text)] = text[1]
    /\ IsIdentifier(SubSeq(text, 2, Len(text) - 1))

\* N or -N
IsInteger(text) ==
    IsDecimal(text) \/ (text # <<>> /\ text[1] = "-" /\ IsDecimal(DropFirst(text, 1)))

\* the token of the accessor [inner]
AccessorToken(inner) ==
    IF IsQuotedKey(inner) THEN StrToken(SubSeq(inner, 2, Len(inner) - 1))
    ELSE IntToken(int(inner).value)

\* the position of the first "]" from loc on, or 0
ClosingBracket(text, loc) ==
    IF \E i \in loc..Len(text) : text[i] = "]"
    THEN CHOOSE i \in loc..Len(text) : text[i] = "]" /\ \A j \in loc..(i - 1) : text[j] # "]"
    ELSE 0

\* the text from loc on is made of bracket accessors and of nothing else
RECURSIVE IsAccessors(_, _)
IsAccessors(text, loc) ==
    \/ loc > Len(text)
    \/ /\ text[loc] = "["
       /\ ClosingBracket(text, loc) # 0
       /\ \/ IsQuotedKey(SubSeq(text, loc + 1, ClosingBracket(text, loc) - 1))
          \/ IsInteger(SubSeq(text, loc + 1, ClosingBracket(text, loc) - 1))
       /\ IsAccessors(text, ClosingBracket(text, loc) + 1)

\* the tokens of the accessors from loc on
RECURSIVE AccessorTokens(_, _)
AccessorTokens(text, loc) ==
    IF loc > Len(text) THEN <<>>
    ELSE <<AccessorToken(SubSeq(text, loc + 1, ClosingBracket(text, loc) - 1))>>
            \o AccessorTokens(text, ClosingBracket(text, loc) + 1)

\* the end of the identifier the text starts with
IdentifierEnd(text) ==
    IF \E i \in 1..Len(text) : text[i] = "[" THEN
         (CHOOSE i \in 1..Len(text) : text[i] = "[" /\ \A j \in 1..(i - 1) : text[j] # "[") - 1
    ELSE Len(text)

\* the text is an identifier followed by bracket accessors
IsSegment(text) ==
    /\ IsIdentifier(SubSeq(text, 1, IdentifierEnd(text)))
    /\ IsAccessors(text, IdentifierEnd(text) + 1)

\* C24: a part is parsed exactly when it is an identifier followed by
\* accessors ["key"], ['key'] or [N]; the parse gives the identifier and
\* then the keys and the integers of the accessors in order; any other
\* text raises ParameterAttributeNameParserError
C24_ParsesExactlySegments ==
    Parsed =>
        parsed.result =
            IF IsSegment(parsed.name)
            THEN Returns(<<StrToken(SubSeq(parsed.name, 1, IdentifierEnd(parsed.name)))>>
                            \o AccessorTokens(parsed.name, IdentifierEnd(parsed.name) + 1))
            ELSE Raises("ParameterAttributeNameParserError")

====
